---- MODULE Spec2Model ----
(***************************************************************************)
(* A model of sud, the Swagger UI downloader: the version comparison, the  *)
(* version marker file, the tar extractor and the orchestrator (main).     *)
(*                                                                         *)
(* A Go string is a sequence of one-character strings, a path is the       *)
(* sequence of its segments relative to the working directory (a leading   *)
(* ".." segment is the parent of the working directory), and the file      *)
(* system is the pair of `files` (path -> content) and `dirs`.             *)
(***************************************************************************)
EXTENDS Integers, Sequences, FiniteSets, TLC

-----------------------------------------------------------------------------
(* Bounds of the model.                                                    *)

\* how many times the program is run in succession against one directory
MaxRuns == 2

\* how many I/O faults (a failed read, write, request or removal) the
\* environment injects over all the runs
MaxFaults == 1

-----------------------------------------------------------------------------
(* Go strings.                                                             *)

\* the characters of the model, in byte order (Go compares strings bytewise)
CharOrder ==
    << "\n", " ", "\"", "'", "+", "-", ".",
       "0", "1", "2", "3", "4", "5", "6", "7", "8", "9",
       ":", "\\", "e", "i", "n", "o", "r", "s", "v", "x", "{", "|" >>

Ord(c) == CHOOSE i \in 1..Len(CharOrder) : CharOrder[i] = c

Digits == {"0", "1", "2", "3", "4", "5", "6", "7", "8", "9"}

DigitVal(c) == Ord(c) - Ord("0")

\* s < t for Go strings: bytewise lexicographic, a proper prefix is less
StrLess(s, t) ==
    \E i \in 1..Len(t) :
        /\ i <= Len(s) + 1
        /\ SubSeq(s, 1, i - 1) = SubSeq(t, 1, i - 1)
        /\ i > Len(s) \/ Ord(s[i]) < Ord(t[i])

\* s > t for Go strings
StrGreater(s, t) == StrLess(t, s)

\* the character at position i of the data; "" past its end
At(d, i) == IF i >= 1 /\ i <= Len(d) THEN d[i] ELSE ""

HasPrefix(s, p) == Len(s) >= Len(p) /\ SubSeq(s, 1, Len(p)) = p

\* strings.Split(s, sep) for a one-character separator
Split(s, sep) ==
    LET cuts == {0, Len(s) + 1} \cup {i \in 1..Len(s) : s[i] = sep}
        cut(k) == CHOOSE i \in cuts : Cardinality({j \in cuts : j < i}) = k
    IN  [k \in 1..(Cardinality(cuts) - 1) |-> SubSeq(s, cut(k - 1) + 1, cut(k) - 1)]

\* the value of a string of decimal digits
RECURSIVE DecVal(_)
DecVal(s) ==
    IF s = <<>> THEN 0
    ELSE 10 * DecVal(SubSeq(s, 1, Len(s) - 1)) + DigitVal(s[Len(s)])

\* strconv.Atoi: an optional sign followed by at least one decimal digit, the
\* value within the range of a 64-bit int
AtoiDigits(s) ==
    IF s # <<>> /\ s[1] \in {"+", "-"} THEN Tail(s) ELSE s

\* the digits of the largest magnitude an int holds: 2^63 below zero, else
\* 2^63 - 1
IntLimit(negative) ==
    << "9", "2", "2", "3", "3", "7", "2", "0", "3", "6", "8", "5", "4", "7", "7",
       "5", "8", "0" >> \o (IF negative THEN <<"8">> ELSE <<"7">>)

\* a string of digits without its leading zeros
StripZeros(s) ==
    SubSeq(s, 1 + Cardinality({i \in 1..(Len(s) - 1) :
                                  \A k \in 1..i : s[k] = "0"}), Len(s))

\* the magnitude fits: fewer digits than the limit, or as many and not above
AtoiInRange(s) ==
    LET d == StripZeros(AtoiDigits(s))
        lim == IntLimit(s[1] = "-")
    IN  Len(d) < Len(lim) \/ (Len(d) = Len(lim) /\ ~StrLess(lim, d))

AtoiOk(s) ==
    /\ AtoiDigits(s) # <<>>
    /\ \A i \in 1..Len(AtoiDigits(s)) : AtoiDigits(s)[i] \in Digits
    /\ AtoiInRange(s)

\* the parsed value is below zero
AtoiNegative(s) ==
    s[1] = "-" /\ \E i \in 1..Len(AtoiDigits(s)) : AtoiDigits(s)[i] # "0"

AtoiVal(s) ==
    IF s[1] = "-" THEN 0 - DecVal(AtoiDigits(s)) ELSE DecVal(AtoiDigits(s))

-----------------------------------------------------------------------------
(* Versions.                                                               *)

\* the baseline of main: previousVersionParts := []string{"0", "0", "0"}
Baseline == << <<"0">>, <<"0">>, <<"0">> >>

\* sanitizeVersion that leaves the tag as it is
keepVersion(v) == v

\* sanitizeVersion: drops one leading "v"
sanitizeVersion(v) ==
    IF v # <<>> /\ v[1] = "v" THEN Tail(v) ELSE v

\* splitSemver: the components between the dots
splitSemver(version) == Split(version, ".")

\* isVersionValueValid with `err != nil && n < 0` for `err != nil || n < 0`:
\* Atoi gives 0 with an error, so no component is ever rejected
isVersionValueValidAnd(version) ==
    \A i \in 1..Len(splitSemver(version)) :
        ~(/\ ~AtoiOk(splitSemver(version)[i])
          /\ (IF AtoiOk(splitSemver(version)[i])
              THEN AtoiVal(splitSemver(version)[i]) ELSE 0) < 0)

\* isVersionValueValid: every component parses as a non-negative integer
isVersionValueValid(version) ==
    \A i \in 1..Len(splitSemver(version)) :
        /\ AtoiOk(splitSemver(version)[i])
        /\ ~AtoiNegative(splitSemver(version)[i])

\* existsNewerVersion, the loop from index i (1-based) on: "true", "false",
\* or "panic" when previous is indexed beyond its length
RECURSIVE existsNewerFrom(_, _, _)
existsNewerFrom(previous, current, i) ==
    IF i > Len(current) THEN "false"
    ELSE IF i > Len(previous) THEN "panic"
    ELSE IF StrGreater(current[i], previous[i]) THEN "true"
    ELSE existsNewerFrom(previous, current, i + 1)

\* existsNewerVersion comparing the components as numbers
RECURSIVE existsNewerNumericFrom(_, _, _)
existsNewerNumericFrom(previous, current, i) ==
    IF i > Len(current) THEN "false"
    ELSE IF i > Len(previous) THEN "panic"
    ELSE IF AtoiOk(current[i]) /\ AtoiOk(previous[i])
            /\ AtoiVal(current[i]) > AtoiVal(previous[i]) THEN "true"
    ELSE existsNewerNumericFrom(previous, current, i + 1)

existsNewerNumeric(previous, current) == existsNewerNumericFrom(previous, current, 1)

\* existsNewerVersion with >= for >
RECURSIVE existsNewerOrEqualFrom(_, _, _)
existsNewerOrEqualFrom(previous, current, i) ==
    IF i > Len(current) THEN "false"
    ELSE IF i > Len(previous) THEN "panic"
    ELSE IF ~StrLess(current[i], previous[i]) THEN "true"
    ELSE existsNewerOrEqualFrom(previous, current, i + 1)

existsNewerOrEqual(previous, current) == existsNewerOrEqualFrom(previous, current, 1)

existsNewerVersion(previous, current) == existsNewerFrom(previous, current, 1)

\* diffSemvers that looks for a greater component first, at any position,
\* as existsNewerVersion does
diffAnyGreater(x, y) ==
    IF \E i \in 1..Len(x) : StrGreater(x[i], y[i]) THEN 1
    ELSE IF \E i \in 1..Len(x) : StrLess(x[i], y[i]) THEN -1
    ELSE 0

\* diffSemvers over [3]string: 1, -1 or 0 at the first differing component
RECURSIVE diffFrom(_, _, _)
diffFrom(x, y, i) ==
    IF i > 3 THEN 0
    ELSE IF StrGreater(x[i], y[i]) THEN 1
    ELSE IF StrLess(x[i], y[i]) THEN -1
    ELSE diffFrom(x, y, i + 1)

diffSemvers(x, y) == diffFrom(x, y, 1)

-----------------------------------------------------------------------------
(* The version marker file: a YAML mapping with the one key "version".     *)

VersionKey == <<"v", "e", "r", "s", "i", "o", "n", ":", " ">>

Quote == "\""

\* a non-empty string of decimal digits
AllDigits(s) == s # <<>> /\ \A i \in 1..Len(s) : s[i] \in Digits

OneOrTwoDigits(s) == AllDigits(s) /\ Len(s) <= 2

HasBreak(v) == \E i \in 1..Len(v) : v[i] = "\n"

\* the number of zeros a string starts with
LeadingZeros(s) ==
    Cardinality({i \in 1..Len(s) : \A k \in 1..i : s[k] = "0"})

\* the sign of a number's text: "+", "-" or none
SignOf(v) == IF v # <<>> /\ v[1] \in {"+", "-"} THEN v[1] ELSE ""

\* strconv.ParseInt(s, 0, 64), then ParseUint: the digits after 0x fit in 64
\* bits, in 63 with a sign (2^63 itself with a minus)
HexFits(h, sign) ==
    \/ Len(h) < 16
    \/ /\ Len(h) = 16
       /\ \/ sign = ""
          \/ h[1] \in {"0", "1", "2", "3", "4", "5", "6", "7"}
          \/ sign = "-" /\ h[1] = "8" /\ \A i \in 2..16 : h[i] = "0"

\* the same for the digits after 0o
OctFits(o, sign) ==
    \/ Len(o) < 22
    \/ /\ Len(o) = 22
       /\ o[1] = "1"
       /\ \/ sign = ""
          \/ sign = "-" /\ \A i \in 2..22 : o[i] = "0"

\* yaml.v2 resolves the plain text to an integer, strconv.ParseInt(s, 0, 64)
\* or ParseUint taking it: decimal digits, octal digits after a zero, or
\* digits after 0x or 0o, of a value that fits: within an int64, or without
\* a sign within a uint64 (lim is the largest magnitude in decimal digits,
\* 2^64 - 1 for a uint64)
yamlInt(v) ==
    LET u == AtoiDigits(v)
        lim == IF SignOf(v) # "" THEN IntLimit(SignOf(v) = "-")
               ELSE << "1", "8", "4", "4", "6", "7", "4", "4", "0", "7", "3", "7",
                       "0", "9", "5", "5", "1", "6", "1", "5" >>
    IN
    \/ /\ AllDigits(u)
       /\ IF Len(u) > 1 /\ u[1] = "0"
          THEN /\ \A i \in 1..Len(u) : u[i] \in {"0", "1", "2", "3", "4", "5", "6", "7"}
               /\ OctFits(StripZeros(u), SignOf(v))
          ELSE Len(u) < Len(lim) \/ (Len(u) = Len(lim) /\ ~StrLess(lim, u))
    \/ /\ HasPrefix(u, <<"0", "x">>)
       /\ Len(u) > 2
       /\ \A i \in 3..Len(u) : u[i] \in Digits \cup {"e"}
       /\ HexFits(StripZeros(SubSeq(u, 3, Len(u))), SignOf(v))
    \/ /\ HasPrefix(u, <<"0", "o">>)
       /\ Len(u) > 2
       /\ \A i \in 3..Len(u) : u[i] \in {"0", "1", "2", "3", "4", "5", "6", "7"}
       /\ OctFits(StripZeros(SubSeq(u, 3, Len(u))), SignOf(v))

\* the digits of 2^1024 - 2^970, the least value that no longer rounds to a
\* float64: halfway from the largest float64 to 2^1024
FloatLimit ==
    << "1", "7", "9", "7", "6", "9", "3", "1", "3", "4", "8", "6", "2", "3", "1",
       "5", "8", "0", "7", "9", "3", "7", "2", "8", "9", "7", "1", "4", "0", "5",
       "3", "0", "3", "4", "1", "5", "0", "7", "9", "9", "3", "4", "1", "3", "2",
       "7", "1", "0", "0", "3", "7", "8", "2", "6", "9", "3", "6", "1", "7", "3",
       "7", "7", "8", "9", "8", "0", "4", "4", "4", "9", "6", "8", "2", "9", "2",
       "7", "6", "4", "7", "5", "0", "9", "4", "6", "6", "4", "9", "0", "1", "7",
       "9", "7", "7", "5", "8", "7", "2", "0", "7", "0", "9", "6", "3", "3", "0",
       "2", "8", "6", "4", "1", "6", "6", "9", "2", "8", "8", "7", "9", "1", "0",
       "9", "4", "6", "5", "5", "5", "5", "4", "7", "8", "5", "1", "9", "4", "0",
       "4", "0", "2", "6", "3", "0", "6", "5", "7", "4", "8", "8", "6", "7", "1",
       "5", "0", "5", "8", "2", "0", "6", "8", "1", "9", "0", "8", "9", "0", "2",
       "0", "0", "0", "7", "0", "8", "3", "8", "3", "6", "7", "6", "2", "7", "3",
       "8", "5", "4", "8", "4", "5", "8", "1", "7", "7", "1", "1", "5", "3", "1",
       "7", "6", "4", "4", "7", "5", "7", "3", "0", "2", "7", "0", "0", "6", "9",
       "8", "5", "5", "5", "7", "1", "3", "6", "6", "9", "5", "9", "6", "2", "2",
       "8", "4", "2", "9", "1", "4", "8", "1", "9", "8", "6", "0", "8", "3", "4",
       "9", "3", "6", "4", "7", "5", "2", "9", "2", "7", "1", "9", "0", "7", "4",
       "1", "6", "8", "4", "4", "4", "3", "6", "5", "5", "1", "0", "7", "0", "4",
       "3", "4", "2", "7", "1", "1", "5", "5", "9", "6", "9", "9", "5", "0", "8",
       "0", "9", "3", "0", "4", "2", "8", "8", "0", "1", "7", "7", "9", "0", "4",
       "1", "7", "4", "4", "9", "7", "7", "9", "2" >>

\* strconv.ParseFloat reports a range error: the value, with integer digits
\* ip, fraction digits fp and exponent text ex, is FloatLimit or more; the
\* digits are compared at one length, the shorter followed by zeros. The
\* exponent is read as readFloat reads it, a digit counting only while the
\* exponent is below 10000: the first five digits after the leading zeros
FloatOverflows(ip, fp, ex) ==
    LET all == ip \o fp
        sig == SubSeq(all, LeadingZeros(all) + 1, Len(all))
        lead == IF LeadingZeros(ip) < Len(ip)
                THEN Len(ip) - LeadingZeros(ip) - 1
                ELSE 0 - LeadingZeros(fp) - 1
        exd == StripZeros(AtoiDigits(ex))
        neg == SignOf(ex) = "-"
        exp == IF Len(exd) > 5 THEN DecVal(SubSeq(exd, 1, 5)) ELSE DecVal(exd)
        e == lead + (IF neg THEN 0 - exp ELSE exp)
        n == IF Len(sig) > Len(FloatLimit) THEN Len(sig) ELSE Len(FloatLimit)
        PadZeros(s) == s \o [i \in 1..(n - Len(s)) |-> "0"]
    IN  /\ sig # <<>>
        /\ e > 308 \/ (e = 308 /\ ~StrLess(PadZeros(sig), PadZeros(FloatLimit)))

\* yaml.v2 resolves the plain text to a float: it matches
\* [-+]?(\.[0-9]+|[0-9]+(\.[0-9]*)?)([eE][-+]?[0-9]+)? and ParseFloat takes it
yamlFloat(v) ==
    LET parts == Split(AtoiDigits(v), "e")
        m == Split(parts[1], ".")
        ex == IF Len(parts) = 2 THEN parts[2] ELSE <<"0">>
    IN  /\ Len(parts) <= 2
        /\ Len(parts) = 2 => AllDigits(AtoiDigits(parts[2]))
        /\ \/ Len(m) = 1 /\ AllDigits(m[1])
           \/ Len(m) = 2 /\ AllDigits(m[1]) /\ (m[2] = <<>> \/ AllDigits(m[2]))
           \/ Len(m) = 2 /\ m[1] = <<>> /\ AllDigits(m[2])
        /\ ~FloatOverflows(m[1], IF Len(m) = 2 THEN m[2] ELSE <<>>, ex)

\* time.Parse takes d by the layout 2006-1-2: the day is one of the month's
yamlDate(d) ==
    LET p == Split(d, "-")
        DaysIn(y, m) == IF m \in {4, 6, 9, 11} THEN 30
                        ELSE IF m # 2 THEN 31
                        ELSE IF y % 4 = 0 /\ (y % 100 # 0 \/ y % 400 = 0) THEN 29
                        ELSE 28
    IN  /\ Len(p) = 3
        /\ AllDigits(p[1]) /\ Len(p[1]) = 4
        /\ OneOrTwoDigits(p[2]) /\ DecVal(p[2]) \in 1..12
        /\ OneOrTwoDigits(p[3]) /\ DecVal(p[3]) \in 1..DaysIn(DecVal(p[1]), DecVal(p[2]))

\* time.Parse takes t by the layout 15:4:5.999999999
yamlClock(t) ==
    LET p == Split(t, ":")
        sec == Split(p[3], ".")
    IN  /\ Len(p) = 3
        /\ OneOrTwoDigits(p[1]) /\ DecVal(p[1]) \in 0..23
        /\ OneOrTwoDigits(p[2]) /\ DecVal(p[2]) \in 0..59
        /\ Len(sec) <= 2
        /\ OneOrTwoDigits(sec[1]) /\ DecVal(sec[1]) \in 0..59
        /\ Len(sec) = 2 => (AllDigits(sec[2]) /\ Len(sec[2]) <= 9)

\* yaml.v2 resolves the plain text to a timestamp: a date, or a date, spaces
\* and a time of day
yamlTimestamp(v) ==
    LET sp == Split(v, " ") IN
    /\ yamlDate(sp[1])
    /\ \/ Len(sp) = 1
       \/ /\ \A i \in 2..(Len(sp) - 1) : sp[i] = <<>>
          /\ yamlClock(sp[Len(sp)])

\* one group of a base-60 number: [0-5]?[0-9]
SexGroup(g) ==
    AllDigits(g) /\ (Len(g) = 1 \/ (Len(g) = 2 /\ g[1] \in {"0", "1", "2", "3", "4", "5"}))

\* yaml.v2's isBase60Float: [-+]?[0-9][0-9_]*(:[0-5]?[0-9])+(\.[0-9_]*)?
yamlBase60(v) ==
    LET parts == Split(AtoiDigits(v), ":")
        last == Split(parts[Len(parts)], ".")
    IN  /\ Len(parts) >= 2
        /\ AllDigits(parts[1])
        /\ \A i \in 2..(Len(parts) - 1) : SexGroup(parts[i])
        /\ Len(last) <= 2
        /\ SexGroup(last[1])
        /\ Len(last) = 2 => (last[2] = <<>> \/ AllDigits(last[2]))

\* yaml.v2 cannot write the string plain, because the plain text would read
\* back as another type: the empty string (null), a boolean word, a
\* timestamp, an integer, a float, a base-60 number
yamlNeedsQuote(v) ==
    \/ v = <<>>
    \/ v \in { <<"n">>, <<"n", "o">>, <<"o", "n">> }
    \/ yamlTimestamp(v)
    \/ yamlInt(v)
    \/ yamlFloat(v)
    \/ yamlBase60(v)

\* the emitter's analysis of a scalar: it holds a block indicator; a "-" or
\* a ":" is one before a space or the end of the string
BlockIndicators(v) ==
    \/ Len(v) >= 3 /\ SubSeq(v, 1, 3) \in { <<"-", "-", "-">>, <<".", ".", ".">> }
    \/ v[1] \in {Quote, "'", "{", "|"}
    \/ v[1] \in {"-", ":"} /\ At(v, 2) \in {" ", ""}
    \/ \E i \in 2..Len(v) : v[i] = ":" /\ At(v, i + 1) \in {" ", ""}

\* a non-empty scalar may be written plain as the value of a block mapping
BlockPlainAllowed(v) ==
    /\ v[1] \notin {" ", "\n"}
    /\ v[Len(v)] \notin {" ", "\n"}
    /\ ~HasBreak(v)
    /\ ~BlockIndicators(v)

\* the style yaml.v2 writes a string in: a literal block for a string with
\* line breaks, double quotes where the plain text would not be a string,
\* single quotes where the plain text would not parse, else plain; double
\* quotes where a literal block cannot hold the string: it ends in a space
\* or has a line break right after a space
yamlStyle(v) ==
    IF HasBreak(v)
    THEN IF v[Len(v)] = " " \/ \E i \in 2..Len(v) : v[i] = "\n" /\ v[i - 1] = " "
         THEN "double"
         ELSE "literal"
    ELSE IF yamlNeedsQuote(v) THEN "double"
    ELSE IF BlockPlainAllowed(v) THEN "plain"
    ELSE "single"

\* a character as a flow scalar of the style holds it: in single quotes a
\* quote is doubled, in double quotes quote, backslash and line break are
\* escaped
WriteChar(c, style) ==
    IF style = "single" /\ c = "'" THEN <<"'", "'">>
    ELSE IF style = "double" /\ c \in {Quote, "\\"} THEN <<"\\", c>>
    ELSE IF style = "double" /\ c = "\n" THEN <<"\\", "n">>
    ELSE <<c>>

\* the first character from i on, at column col, that is not written as it
\* is: escaped, or a space the emitter breaks the line at, which is the
\* first space of a run past the best width of 80 columns; not a first or
\* last character in quotes, not before another space unless in double
\* quotes
WriteStop(v, i, col, style) ==
    LET FoldAt(k) ==
            /\ v[k] = " "
            /\ (k = 1 \/ v[k - 1] # " ")
            /\ col + k - i > 80
            /\ (style = "plain" \/ (k > 1 /\ k < Len(v)))
            /\ (style = "double" \/ k = Len(v) \/ v[k + 1] # " ")
    IN  CHOOSE j \in i..(Len(v) + 1) :
            /\ j > Len(v) \/ Len(WriteChar(v[j], style)) = 2 \/ FoldAt(j)
            /\ \A k \in i..(j - 1) : Len(WriteChar(v[k], style)) = 1 /\ ~FoldAt(k)

\* yaml_emitter_write_plain_scalar, write_single_quoted_scalar and
\* write_double_quoted_scalar, in at most n steps: w.out is written, w.i is
\* the next character and w.col its column; a step writes the characters up
\* to the next one that is escaped or folded, and that one: a line break and
\* two spaces of indentation replace a space the line is broken at, and in
\* double quotes a space after it is escaped
RECURSIVE WriteScalar(_, _, _, _)
WriteScalar(v, w, style, n) ==
    IF w.i > Len(v) THEN w
    ELSE IF n > 1
    THEN WriteScalar(v, WriteScalar(v, w, style, n \div 2), style, n - n \div 2)
    ELSE LET j == WriteStop(v, w.i, w.col, style) IN
         [i |-> j + 1,
          col |-> IF At(v, j) # " " THEN w.col + j - w.i + 2
                  ELSE IF style = "double" /\ At(v, j + 1) = " " THEN 3
                  ELSE 2,
          out |-> w.out \o SubSeq(v, w.i, j - 1)
                  \o (IF j > Len(v) THEN <<>>
                      ELSE IF v[j] # " " THEN WriteChar(v[j], style)
                      ELSE IF style = "double" /\ At(v, j + 1) = " "
                      THEN <<"\n", " ", " ", "\\">>
                      ELSE <<"\n", " ", " ">>)]

\* the header of a literal block: the indentation when the text starts with
\* a space or a line break, then - when it does not end in a line break and
\* + when it ends in more than one (or is one)
LiteralHints(v) ==
    (IF v[1] \in {" ", "\n"} THEN <<"2">> ELSE <<>>)
    \o (IF v[Len(v)] # "\n" THEN <<"-">>
        ELSE IF Len(v) = 1 \/ v[Len(v) - 1] = "\n" THEN <<"+">>
        ELSE <<>>)

\* the lines of a literal block, in at most n steps: w.out is written and
\* w.i is the first character of the next line; each line that is not empty
\* is indented by two spaces
RECURSIVE LiteralBody(_, _, _)
LiteralBody(v, w, n) ==
    IF w.i > Len(v) THEN w
    ELSE IF n > 1 THEN LiteralBody(v, LiteralBody(v, w, n \div 2), n - n \div 2)
    ELSE LET end == CHOOSE j \in w.i..(Len(v) + 1) :
                        /\ j > Len(v) \/ v[j] = "\n"
                        /\ \A k \in w.i..(j - 1) : v[k] # "\n"
         IN  [i |-> end + 1,
              out |-> w.out
                      \o (IF end > w.i THEN <<" ", " ">> \o SubSeq(v, w.i, end - 1)
                          ELSE <<>>)
                      \o (IF end > Len(v) THEN <<>> ELSE <<"\n">>)]

\* yaml.Marshal(VersionFile{Version: v}): the key, the scalar in its style
\* from column 9 on, and the line break the last line lacks
yamlMarshal(v) ==
    LET Mark(style) == CASE style = "plain" -> <<>>
                         [] style = "single" -> <<"'">>
                         [] style = "double" -> <<Quote>>
        Written(style) ==
            IF style = "literal"
            THEN <<"|">> \o LiteralHints(v) \o <<"\n">>
                         \o LiteralBody(v, [i |-> 1, out |-> <<>>], Len(v) + 1).out
                         \o (IF v[Len(v)] # "\n" THEN <<"\n">> ELSE <<>>)
            ELSE Mark(style)
                 \o WriteScalar(v, [i |-> 1, col |-> 9 + Len(Mark(style)),
                                    out |-> <<>>], style, Len(v) + 1).out
                 \o Mark(style) \o <<"\n">>
    IN  VersionKey \o Written(yamlStyle(v))

-----------------------------------------------------------------------------
(* yaml.Unmarshal. The scanner of yaml.v2 (scannerc.go) cuts the data into *)
(* tokens, its parser (parserc.go) reads the nodes of the first document   *)
(* from them, and its decoder (decode.go) fills the VersionFile.           *)

\* a space, a line break or the end of the data
IsBlankz(c) == c \in {" ", "\n", ""}

\* "---" or "..." and then a space, a line break or the end of the data
DocIndicator(d, i) ==
    /\ At(d, i) \in {"-", "."}
    /\ At(d, i + 1) = At(d, i)
    /\ At(d, i + 2) = At(d, i)
    /\ IsBlankz(At(d, i + 3))

\* a token; a scalar has its text as value
Token(typ, value) == [typ |-> typ, value |-> value]

\* no simple key is possible
NoKey ==
    [possible |-> FALSE, required |-> FALSE, tok |-> 0, line |-> 0, pos |-> 0,
     col |-> 0]

\* the scanner after the stream start; the parser can have the first avail
\* of the tokens
ScanStart ==
    [pos |-> 1, line |-> 0, col |-> 0, indent |-> -1, indents |-> <<>>,
     flow |-> 0, allowed |-> TRUE, keys |-> <<NoKey>>, toks |-> <<>>,
     avail |-> 0, err |-> FALSE, done |-> FALSE]

\* a scanner error
Fail(s) == [s EXCEPT !.err = TRUE]

\* skip n characters of a line
Advance(s, n) == [s EXCEPT !.pos = @ + n, !.col = @ + n]

\* skip a line break
NewLine(s) == [s EXCEPT !.pos = @ + 1, !.line = @ + 1, !.col = 0]

\* the first position from i on that holds no character of the set skip
Skip(d, i, skip) ==
    CHOOSE j \in i..(Len(d) + 1) :
        At(d, j) \notin skip /\ \A k \in i..(j - 1) : d[k] \in skip

\* the first position from i on that holds a character of stops, or the end
\* of the data
Find(d, i, stops) ==
    CHOOSE j \in i..(Len(d) + 1) :
        At(d, j) \in stops \cup {""} /\ \A k \in i..(j - 1) : d[k] \notin stops

\* yaml_parser_scan_to_next_token: over spaces and line breaks; a line break
\* of the block context allows a simple key
ToNextToken(d, s) ==
    LET j == Skip(d, s.pos, {" ", "\n"})
        breaks == {k \in s.pos..(j - 1) : d[k] = "\n"}
    IN  IF breaks = {} THEN Advance(s, j - s.pos)
        ELSE [s EXCEPT !.pos = j,
                       !.line = @ + Cardinality(breaks),
                       !.col = j - 1 - CHOOSE k \in breaks : \A l \in breaks : l <= k,
                       !.allowed = @ \/ s.flow = 0]

\* yaml_parser_stale_simple_keys: a simple key can no longer be one on a
\* later line, or more than 1024 characters on; a required key that went
\* stale is an error
StaleKeys(s) ==
    LET stale == {i \in 1..Len(s.keys) :
                     /\ s.keys[i].possible
                     /\ s.keys[i].line < s.line \/ s.keys[i].pos + 1024 < s.pos}
    IN  IF \E i \in stale : s.keys[i].required THEN Fail(s)
        ELSE [s EXCEPT !.keys = [i \in 1..Len(s.keys) |->
                                   IF i \in stale THEN NoKey ELSE s.keys[i]]]

\* yaml_parser_unroll_indent: close the blocks indented deeper than column
RECURSIVE Unroll(_, _)
Unroll(s, column) ==
    IF s.flow > 0 \/ s.indent <= column THEN s
    ELSE Unroll([s EXCEPT !.toks = Append(@, Token("BLOCK-END", <<>>)),
                          !.indent = s.indents[Len(s.indents)],
                          !.indents = SubSeq(@, 1, Len(@) - 1)], column)

\* yaml_parser_roll_indent: open a block at column, its start token put at
\* place at of the tokens
RollIndent(s, column, at, typ) ==
    IF s.flow > 0 \/ s.indent >= column THEN s
    ELSE [s EXCEPT !.indents = Append(@, s.indent),
                   !.indent = column,
                   !.toks = SubSeq(@, 1, at - 1) \o <<Token(typ, <<>>)>>
                            \o SubSeq(@, at, Len(@))]

\* yaml_parser_remove_simple_key
RemoveKey(s) ==
    IF s.keys[Len(s.keys)].possible /\ s.keys[Len(s.keys)].required
    THEN Fail(s)
    ELSE [s EXCEPT !.keys[Len(s.keys)] = NoKey]

\* yaml_parser_save_simple_key: the next token may start a simple key
SaveKey(s) ==
    IF ~s.allowed THEN s
    ELSE IF RemoveKey(s).err THEN RemoveKey(s)
    ELSE [s EXCEPT !.keys[Len(s.keys)] =
                       [possible |-> TRUE,
                        required |-> s.flow = 0 /\ s.indent = s.col,
                        tok |-> Len(s.toks) + 1, line |-> s.line,
                        pos |-> s.pos, col |-> s.col]]

\* a scalar being read from its first character c on, plain, quoted or
\* block, after its quote or its "|": its text s, the spaces ws and the line
\* breaks (brk the first, tbr the others) read since its last character, lb
\* after a line break; parent is the indentation of the block it is in,
\* indent that of a block scalar (0: not known yet), lbr the line break
\* after its last line, chomp the chomping sign of its header
ScalarStart(s, c) ==
    [kind |-> CASE c = "|" -> "block"
                [] c = "'" -> "single"
                [] c = Quote -> "double"
                [] OTHER -> "plain",
     mode |-> IF c = "|" THEN "header" ELSE "top",
     pos |-> IF c \in {"|", "'", Quote} THEN s.pos + 1 ELSE s.pos,
     col |-> IF c \in {"|", "'", Quote} THEN s.col + 1 ELSE s.col,
     line |-> s.line, s |-> <<>>, ws |-> <<>>, lb |-> FALSE, brk |-> FALSE,
     tbr |-> <<>>, lbr |-> <<>>, err |-> FALSE, flow |-> s.flow,
     parent |-> s.indent, indent |-> 0, max |-> 0, chomp |-> ""]

\* the text with what was read since its last character: one line break
\* folds to a space, more to one less, and spaces stay unless a line break
\* followed
Joined(p) ==
    IF p.lb
    THEN IF p.brk /\ p.tbr = <<>> THEN Append(p.s, " ") ELSE p.s \o p.tbr
    ELSE p.s \o p.ws

\* the text gains the characters run
Put(p, run) ==
    Advance([p EXCEPT !.s = Joined(p) \o run, !.ws = <<>>, !.lb = FALSE,
                      !.brk = FALSE, !.tbr = <<>>], Len(run))

\* the blanks inside a plain or quoted scalar, from a space or a line break
\* on: spaces are dropped after a line break, and a line break drops the
\* spaces before it
Blanks(d, p) ==
    LET n == Skip(d, p.pos, {" "}) - p.pos IN
    IF At(d, p.pos) = " "
    THEN Advance(IF p.lb THEN p ELSE [p EXCEPT !.ws = @ \o [i \in 1..n |-> " "]], n)
    ELSE NewLine(IF p.lb THEN [p EXCEPT !.tbr = Append(@, "\n")]
                 ELSE [p EXCEPT !.ws = <<>>, !.lb = TRUE, !.brk = TRUE])

\* the first position from i on where a plain scalar cannot go on: at a
\* blank, the end, a ":" before a blank, and in the flow context a flow
\* indicator or a ":" before one
PlainEnd(d, flow, i) ==
    LET PlainStop(k) ==
            \/ IsBlankz(At(d, k))
            \/ At(d, k) = ":" /\ IsBlankz(At(d, k + 1))
            \/ flow > 0 /\ At(d, k) \in {",", "?", "[", "]", "{", "}"}
            \/ flow > 0 /\ At(d, k) = ":"
                        /\ At(d, k + 1) \in {",", "?", "[", "]", "{", "}"}
    IN  CHOOSE j \in i..(Len(d) + 1) :
            PlainStop(j) /\ \A k \in i..(j - 1) : ~PlainStop(k)

\* a step of yaml_parser_scan_plain_scalar: the characters up to a blank,
\* or the blanks up to a character; the scalar ends at ": ", at a document
\* indicator, or before a line that starts left of the indentation; in the
\* flow context a ":" before a flow indicator is an error
PlainStep(d, p) ==
    IF p.mode = "top"
    THEN IF p.col = 0 /\ DocIndicator(d, p.pos) THEN [p EXCEPT !.mode = "done"]
         ELSE IF PlainEnd(d, p.flow, p.pos) = p.pos THEN [p EXCEPT !.mode = "end"]
         ELSE [Put(p, SubSeq(d, p.pos, PlainEnd(d, p.flow, p.pos) - 1))
               EXCEPT !.mode = "end"]
    ELSE IF p.mode = "end"
    THEN IF At(d, p.pos) \in {" ", "\n"} THEN [p EXCEPT !.mode = "blanks"]
         ELSE [p EXCEPT !.mode = "done",
                        !.err = At(d, p.pos) = ":" /\ ~IsBlankz(At(d, p.pos + 1))]
    ELSE IF At(d, p.pos) \in {" ", "\n"} THEN Blanks(d, p)
    ELSE IF p.flow = 0 /\ p.col < p.parent + 1 THEN [p EXCEPT !.mode = "done"]
    ELSE [p EXCEPT !.mode = "top"]

\* the character of the code written \xhl, in the hexadecimal digits the
\* model's characters spell: one of the characters of the codes 32 to 126
\* (Ascii; the backquote stands as its escape), a line break, or a character
\* that is not printable, which stands as its escape
HexChar(h, l) ==
    LET code == 16 * (IF h = "e" THEN 14 ELSE DigitVal(h))
                + (IF l = "e" THEN 14 ELSE DigitVal(l))
        Ascii ==
            << " ", "!", "\"", "#", "$", "%", "&", "'", "(", ")", "*", "+",
               ",", "-", ".", "/", "0", "1", "2", "3", "4", "5", "6", "7",
               "8", "9", ":", ";", "<", "=", ">", "?", "@", "A", "B", "C",
               "D", "E", "F", "G", "H", "I", "J", "K", "L", "M", "N", "O",
               "P", "Q", "R", "S", "T", "U", "V", "W", "X", "Y", "Z", "[",
               "\\", "]", "^", "_", "\\x60", "a", "b", "c", "d", "e", "f", "g",
               "h", "i", "j", "k", "l", "m", "n", "o", "p", "q", "r", "s",
               "t", "u", "v", "w", "x", "y", "z", "{", "|", "}", "~" >>
    IN  IF code \in 32..126 THEN Ascii[code - 31]
        ELSE IF code = 10 THEN "\n"
        ELSE IF code = 13 THEN "\r"
        ELSE IF code = 9 THEN "\t"
        ELSE IF code = 12 THEN "\f"
        ELSE "\\x" \o h \o l

\* a step of yaml_parser_scan_flow_scalar, from after the opening quote to
\* after the closing one (single: of single quotes); the end of the data or
\* a document indicator inside, or an unknown escape, is an error; Escaped is
\* the character of a one-letter escape of a double-quoted scalar
QuotedStep(d, p, single) ==
    LET c == At(d, p.pos)
        n == At(d, p.pos + 1)
        stop == Find(d, p.pos, IF single THEN {" ", "\n", "'"}
                               ELSE {" ", "\n", Quote, "\\"})
        Escaped == CASE n = "n" -> "\n"
                     [] n = "r" -> "\r"
                     [] n = "0" -> HexChar("0", "0")
                     [] n = "e" -> "\\x1b"
                     [] n = "v" -> "\\x0b"
                     [] OTHER -> n
    IN
    IF p.mode = "top"
    THEN IF c = "" \/ (p.col = 0 /\ DocIndicator(d, p.pos))
         THEN [p EXCEPT !.mode = "done", !.err = TRUE]
         ELSE [p EXCEPT !.mode = "chars", !.lb = FALSE]
    ELSE IF p.mode = "chars"
    THEN IF stop > p.pos
         THEN Advance([p EXCEPT !.s = @ \o SubSeq(d, p.pos, stop - 1)], stop - p.pos)
         ELSE IF IsBlankz(c) THEN [p EXCEPT !.mode = "blanks"]
         ELSE IF single /\ n = "'" THEN Advance([p EXCEPT !.s = Append(@, "'")], 2)
         ELSE IF single \/ c = Quote THEN Advance([p EXCEPT !.mode = "done"], 1)
         ELSE IF n = "\n"
         THEN NewLine(Advance([p EXCEPT !.mode = "end", !.lb = TRUE], 1))
         ELSE IF n \in {"0", "e", "n", "r", "v", " ", Quote, "'", "\\"}
         THEN Advance([p EXCEPT !.s = Append(@, Escaped)], 2)
         ELSE IF /\ n = "x"
                 /\ At(d, p.pos + 2) \in Digits \cup {"e"}
                 /\ At(d, p.pos + 3) \in Digits \cup {"e"}
         THEN Advance([p EXCEPT !.s = Append(@, HexChar(At(d, p.pos + 2),
                                                        At(d, p.pos + 3)))], 4)
         ELSE [p EXCEPT !.mode = "done", !.err = TRUE]
    ELSE IF p.mode = "end"
    THEN IF c = Quote THEN Advance([p EXCEPT !.mode = "done"], 1)
         ELSE [p EXCEPT !.mode = "blanks"]
    ELSE IF c \in {" ", "\n"} THEN Blanks(d, p)
    ELSE [p EXCEPT !.mode = "top", !.s = Joined(p), !.ws = <<>>, !.brk = FALSE,
                   !.tbr = <<>>]

\* the header of a block scalar from position i: the chomping sign and the
\* indentation digit (-1: none), in either order, and the position end after
\* the header and the spaces behind it
BlockHeader(d, i) ==
    LET c == At(d, i)
        n == At(d, i + 1)
    IN
    IF c \in {"+", "-"}
    THEN [chomp |-> c, inc |-> IF n \in Digits THEN DigitVal(n) ELSE -1,
          end |-> Skip(d, IF n \in Digits THEN i + 2 ELSE i + 1, {" "})]
    ELSE IF c \in Digits
    THEN [chomp |-> IF n \in {"+", "-"} THEN n ELSE "", inc |-> DigitVal(c),
          end |-> Skip(d, IF n \in {"+", "-"} THEN i + 2 ELSE i + 1, {" "})]
    ELSE [chomp |-> "", inc |-> -1, end |-> Skip(d, i, {" "})]

\* a step of yaml_parser_scan_block_scalar: the header (Start: an
\* indentation of 0, or anything but spaces up to the end of the line, is an
\* error), then the indentation and the empty lines before a line
\* (yaml_parser_scan_block_scalar_breaks, Breaks: n is how far the line is
\* indented, at most the indentation), or a line; with no indentation given
\* it is that of the first line that is not empty, and more than the
\* parent's; the text ends before the first line indented otherwise, and is
\* cut ("-"), keeps one final line break, or keeps them all ("+")
BlockStep(d, b) ==
    LET Start(h) ==
            IF h.inc = 0 \/ At(d, h.end) \notin {"\n", ""}
            THEN [b EXCEPT !.mode = "done", !.err = TRUE]
            ELSE [b EXCEPT
                    !.mode = "breaks",
                    !.chomp = h.chomp,
                    !.pos = IF At(d, h.end) = "\n" THEN h.end + 1 ELSE h.end,
                    !.line = IF At(d, h.end) = "\n" THEN @ + 1 ELSE @,
                    !.col = IF At(d, h.end) = "\n" THEN 0 ELSE @ + h.end - b.pos,
                    !.indent = IF h.inc < 0 THEN 0
                               ELSE IF b.parent >= 0 THEN b.parent + h.inc
                               ELSE h.inc]
        Breaks(n, max, indent) ==
            IF At(d, b.pos + n) = "\n"
            THEN NewLine(Advance([b EXCEPT !.tbr = Append(@, "\n"), !.max = max], n))
            ELSE IF b.col + n = indent /\ At(d, b.pos + n) # ""
            THEN Advance([b EXCEPT !.mode = "content", !.s = @ \o b.lbr \o b.tbr,
                                   !.lbr = <<>>, !.tbr = <<>>, !.indent = indent], n)
            ELSE Advance([b EXCEPT
                            !.mode = "done", !.indent = indent,
                            !.s = @ \o (IF b.chomp # "-" THEN b.lbr ELSE <<>>)
                                    \o (IF b.chomp = "+" THEN b.tbr ELSE <<>>)], n)
        Indented(n, max) ==
            Breaks(n, max, IF b.indent # 0 THEN b.indent
                           ELSE IF max > b.parent + 1 /\ max > 1 THEN max
                           ELSE IF b.parent + 1 > 1 THEN b.parent + 1
                           ELSE 1)
        Spaces(n) == Indented(n, IF b.col + n > b.max THEN b.col + n ELSE b.max)
        Line(end) ==
            IF At(d, end) = "\n"
            THEN NewLine(Advance([b EXCEPT !.mode = "breaks",
                                           !.s = @ \o SubSeq(d, b.pos, end - 1),
                                           !.lbr = <<"\n">>], end - b.pos))
            ELSE Advance([b EXCEPT !.mode = "breaks",
                                   !.s = @ \o SubSeq(d, b.pos, end - 1)], end - b.pos)
        Upto(sp) == Spaces(IF b.indent = 0 THEN sp
                           ELSE IF b.col >= b.indent THEN 0
                           ELSE IF sp < b.indent - b.col THEN sp
                           ELSE b.indent - b.col)
    IN
    IF b.mode = "header" THEN Start(BlockHeader(d, b.pos))
    ELSE IF b.mode = "breaks" THEN Upto(Skip(d, b.pos, {" "}) - b.pos)
    ELSE Line(Find(d, b.pos, {"\n"}))

\* the scalar p read to its end, in at most n steps
RECURSIVE ScanScalar(_, _, _)
ScanScalar(d, p, n) ==
    IF p.mode = "done" THEN p
    ELSE IF n > 1 THEN ScanScalar(d, ScanScalar(d, p, n \div 2), n - n \div 2)
    ELSE IF p.kind = "plain" THEN PlainStep(d, p)
    ELSE IF p.kind = "block" THEN BlockStep(d, p)
    ELSE QuotedStep(d, p, p.kind = "single")

\* yaml_parser_fetch_stream_end (c is "", past the end of the data) and
\* yaml_parser_fetch_document_indicator (c is the "-" or the "." of one)
FetchDocument(s, c) ==
    LET u == RemoveKey(Unroll(IF c = "" /\ s.col # 0
                              THEN [s EXCEPT !.col = 0, !.line = @ + 1]
                              ELSE s, -1))
    IN  IF u.err THEN u
        ELSE IF c = ""
        THEN [u EXCEPT !.allowed = FALSE, !.done = TRUE,
                       !.toks = Append(@, Token("STREAM-END", <<>>))]
        ELSE Advance([u EXCEPT !.allowed = FALSE,
                               !.toks = Append(@, Token(IF c = "-" THEN "DOCUMENT-START"
                                                        ELSE "DOCUMENT-END", <<>>))], 3)

\* yaml_parser_fetch_block_entry
FetchEntry(s) ==
    IF s.flow = 0 /\ ~s.allowed THEN Fail(s)
    ELSE LET u == RemoveKey(RollIndent(s, s.col, Len(s.toks) + 1,
                                       "BLOCK-SEQUENCE-START"))
         IN  IF u.err THEN u
             ELSE Advance([u EXCEPT !.allowed = TRUE,
                                    !.toks = Append(@, Token("BLOCK-ENTRY", <<>>))], 1)

\* yaml_parser_fetch_value: after a possible simple key, KEY (and the start
\* of a block mapping at the key's column) goes before the key's token
FetchValue(s) ==
    LET k == s.keys[Len(s.keys)] IN
    IF k.possible
    THEN Advance([RollIndent([s EXCEPT !.toks = SubSeq(@, 1, k.tok - 1)
                                                \o <<Token("KEY", <<>>)>>
                                                \o SubSeq(@, k.tok, Len(@))],
                             k.col, k.tok, "BLOCK-MAPPING-START")
                  EXCEPT !.keys[Len(s.keys)] = NoKey,
                         !.allowed = FALSE,
                         !.toks = Append(@, Token("VALUE", <<>>))], 1)
    ELSE IF s.flow = 0 /\ ~s.allowed THEN Fail(s)
    ELSE Advance([RollIndent(s, s.col, Len(s.toks) + 1, "BLOCK-MAPPING-START")
                  EXCEPT !.allowed = (s.flow = 0),
                         !.toks = Append(@, Token("VALUE", <<>>))], 1)

\* yaml_parser_fetch_flow_scalar, yaml_parser_fetch_plain_scalar and
\* yaml_parser_fetch_block_scalar: p is the scalar read; a simple key may
\* start at a flow or plain scalar, and may follow a block scalar or a plain
\* scalar that ended after a line break
FetchScalar(s, p) ==
    LET k == IF p.kind = "block" THEN RemoveKey(s) ELSE SaveKey(s) IN
    IF k.err THEN k
    ELSE IF p.err THEN Fail(s)
    ELSE [k EXCEPT !.pos = p.pos, !.line = p.line, !.col = p.col,
                   !.allowed = p.kind = "block" \/ (p.kind = "plain" /\ p.lb),
                   !.toks = Append(@, Token("SCALAR", p.s))]

\* yaml_parser_fetch_next_token, after the way to the token: by its first
\* characters; yaml_parser_fetch_flow_collection_start opens a flow mapping,
\* where a simple key may follow
FetchToken(d, s) ==
    LET c == At(d, s.pos)
        n == At(d, s.pos + 1)
    IN
    IF s.err THEN s
    ELSE IF c = "" \/ (s.col = 0 /\ DocIndicator(d, s.pos)) THEN FetchDocument(s, c)
    ELSE IF c = "{"
    THEN IF SaveKey(s).err THEN SaveKey(s)
         ELSE Advance([SaveKey(s) EXCEPT
                          !.flow = @ + 1,
                          !.keys = Append(@, NoKey),
                          !.allowed = TRUE,
                          !.toks = Append(@, Token("FLOW-MAPPING-START", <<>>))], 1)
    ELSE IF c = "-" /\ IsBlankz(n) THEN FetchEntry(s)
    ELSE IF c = ":" /\ (s.flow > 0 \/ IsBlankz(n)) THEN FetchValue(s)
    ELSE IF c = "|" /\ s.flow > 0 THEN Fail(s)
    ELSE FetchScalar(s, ScanScalar(d, ScalarStart(s, c), 4 * Len(d) + 4))

\* yaml_parser_fetch_more_tokens: the parser can have the tokens before the
\* first one a simple key may still start at
Ready(s) ==
    LET t == StaleKeys(s)
        open == {i \in 1..Len(s.keys) : t.keys[i].possible}
    IN  IF t.err THEN t
        ELSE [t EXCEPT !.avail = IF open = {} THEN Len(s.toks)
                                 ELSE t.keys[CHOOSE i \in open :
                                                \A j \in open : i <= j].tok - 1]

\* the scanner after the tokens of the data, fetched in at most n steps:
\* yaml_parser_fetch_next_token goes to the token, drops the stale simple
\* keys and closes the blocks indented deeper than the token
RECURSIVE yamlScan(_, _, _)
yamlScan(d, s, n) ==
    IF s.err \/ s.done THEN s
    ELSE IF n > 1 THEN yamlScan(d, yamlScan(d, s, n \div 2), n - n \div 2)
    ELSE LET t == StaleKeys(ToNextToken(d, s)) IN
         Ready(FetchToken(d, IF t.err THEN t ELSE Unroll(t, t.col)))

\* the parser hands out an event: a scalar with its text, the empty scalar
\* it supplies where a node is missing ("null"), the start of a sequence or
\* of a mapping, or the end of one, where it goes back to the state it put
\* aside last. The decoder's mapping into the struct:
\* the value of the key "version" is the field if it is a scalar (a null is
\* the empty string), a type error if not; a later entry replaces an earlier
\* one, any other key is skipped
Emit(ps, kind, value) ==
    LET inroot == ps.depth = 1 /\ ps.root = "mapping" /\ kind # "end" IN
    [ps EXCEPT
        !.state = IF kind = "end" THEN ps.states[Len(ps.states)] ELSE @,
        !.states = IF kind = "end" THEN SubSeq(@, 1, Len(@) - 1) ELSE @,
        !.root = IF ps.depth = 0 /\ kind # "end" THEN kind ELSE @,
        !.depth = IF kind \in {"sequence", "mapping"} THEN @ + 1
                  ELSE IF kind = "end" THEN @ - 1
                  ELSE @,
        !.iskey = IF inroot THEN ~@ ELSE @,
        !.match = IF inroot /\ ps.iskey
                  THEN kind = "scalar" /\ value = SubSeq(VersionKey, 1, 7)
                  ELSE @,
        !.version = IF inroot /\ ~ps.iskey /\ ps.match /\ kind \in {"null", "scalar"}
                    THEN value
                    ELSE @,
        !.terr = @ \/ (inroot /\ ~ps.iskey /\ ps.match
                       /\ kind \in {"sequence", "mapping"})]

\* yaml_parser_parse_node in the block context, with the state to come back
\* to put aside; a flow mapping is an error, for the characters of the model
\* cannot close one
ParseNode(sc, ps, back, indentless) ==
    IF ps.i > sc.avail THEN Fail(ps)
    ELSE IF indentless /\ sc.toks[ps.i].typ = "BLOCK-ENTRY"
    THEN Emit([ps EXCEPT !.state = "indentless-sequence-entry",
                         !.states = Append(@, back)], "sequence", <<>>)
    ELSE IF sc.toks[ps.i].typ = "SCALAR"
    THEN Emit([ps EXCEPT !.state = back, !.i = @ + 1], "scalar", sc.toks[ps.i].value)
    ELSE IF sc.toks[ps.i].typ = "BLOCK-SEQUENCE-START"
    THEN Emit([ps EXCEPT !.state = "block-sequence-entry", !.i = @ + 1,
                         !.states = Append(@, back)], "sequence", <<>>)
    ELSE IF sc.toks[ps.i].typ = "BLOCK-MAPPING-START"
    THEN Emit([ps EXCEPT !.state = "block-mapping-key", !.i = @ + 1,
                         !.states = Append(@, back)], "mapping", <<>>)
    ELSE Fail(ps)

\* a step of yaml_parser_state_machine on the tokens the scanner hands out,
\* up to the end of the first document: yaml_parser_parse_document_start
\* (the root node comes after "---" if the data starts with one, and nothing
\* after "---" is a null), parse_document_content, parse_block_sequence_entry,
\* parse_indentless_sequence_entry, parse_block_mapping_key,
\* parse_block_mapping_value, and parse_document_end, which looks at the
\* token after the root node
ParseStep(sc, ps) ==
    LET t == sc.toks[ps.i].typ
        n == sc.toks[ps.i + 1].typ
        next == [ps EXCEPT !.i = @ + 1]
    IN
    IF ps.i > sc.avail THEN Fail(ps)
    ELSE IF ps.state = "document-start"
    THEN IF t = "STREAM-END" THEN [ps EXCEPT !.done = TRUE]
         ELSE IF t = "DOCUMENT-START" THEN [next EXCEPT !.state = "document-content"]
         ELSE ParseNode(sc, ps, "document-end", FALSE)
    ELSE IF ps.state = "document-content"
    THEN IF t \in {"DOCUMENT-START", "DOCUMENT-END", "STREAM-END"}
         THEN Emit([ps EXCEPT !.state = "document-end"], "null", <<>>)
         ELSE ParseNode(sc, ps, "document-end", FALSE)
    ELSE IF ps.state = "block-sequence-entry"
    THEN IF t = "BLOCK-ENTRY"
         THEN IF ps.i + 1 > sc.avail THEN Fail(ps)
              ELSE IF n \in {"BLOCK-ENTRY", "BLOCK-END"} THEN Emit(next, "null", <<>>)
              ELSE ParseNode(sc, next, "block-sequence-entry", FALSE)
         ELSE IF t = "BLOCK-END" THEN Emit(next, "end", <<>>)
         ELSE Fail(ps)
    ELSE IF ps.state = "indentless-sequence-entry"
    THEN IF t = "BLOCK-ENTRY"
         THEN IF ps.i + 1 > sc.avail THEN Fail(ps)
              ELSE IF n \in {"BLOCK-ENTRY", "KEY", "VALUE", "BLOCK-END"}
              THEN Emit(next, "null", <<>>)
              ELSE ParseNode(sc, next, "indentless-sequence-entry", FALSE)
         ELSE Emit(ps, "end", <<>>)
    ELSE IF ps.state = "block-mapping-key"
    THEN IF t = "KEY"
         THEN IF ps.i + 1 > sc.avail THEN Fail(ps)
              ELSE IF n \in {"KEY", "VALUE", "BLOCK-END"}
              THEN Emit([next EXCEPT !.state = "block-mapping-value"], "null", <<>>)
              ELSE ParseNode(sc, next, "block-mapping-value", TRUE)
         ELSE IF t = "BLOCK-END" THEN Emit(next, "end", <<>>)
         ELSE Fail(ps)
    ELSE IF ps.state = "block-mapping-value"
    THEN IF t = "VALUE"
         THEN IF ps.i + 1 > sc.avail THEN Fail(ps)
              ELSE IF n \in {"KEY", "VALUE", "BLOCK-END"}
              THEN Emit([next EXCEPT !.state = "block-mapping-key"], "null", <<>>)
              ELSE ParseNode(sc, next, "block-mapping-key", TRUE)
         ELSE Emit([ps EXCEPT !.state = "block-mapping-key"], "null", <<>>)
    ELSE [ps EXCEPT !.done = TRUE]

\* the parser after the first document of the tokens, in at most n steps
RECURSIVE yamlParse(_, _, _)
yamlParse(sc, ps, n) ==
    IF ps.err \/ ps.done THEN ps
    ELSE IF n > 1 THEN yamlParse(sc, yamlParse(sc, ps, n \div 2), n - n \div 2)
    ELSE ParseStep(sc, ps)

\* yaml.Unmarshal into a VersionFile, of the first document of the data: a
\* mapping fills Version, a null or no document fills nothing, any other
\* scalar and a sequence are type errors; after an error of the scanner or
\* of the parser nothing is filled. The parser starts before token i = 1 in
\* a state of yaml_parser_state_machine, no state to come back to put aside;
\* of what it reads, the decoder keeps the kind of the root node, how deep
\* in it the parser is, whether the next node of the root mapping is a key,
\* whether the last key was "version", the value of that key and whether it
\* was no scalar (terr)
yamlUnmarshal(data) ==
    LET Decoded(ps) ==
            IF ps.err THEN [err |-> TRUE, Version |-> <<>>]
            ELSE IF ps.root = "mapping" THEN [err |-> ps.terr, Version |-> ps.version]
            ELSE [err |-> ps.root \in {"scalar", "sequence"}, Version |-> <<>>]
        Parsed(sc) ==
            Decoded(yamlParse(sc, [i |-> 1, state |-> "document-start",
                                   states |-> <<>>, depth |-> 0, root |-> "",
                                   iskey |-> TRUE, match |-> FALSE, version |-> <<>>,
                                   terr |-> FALSE, err |-> FALSE, done |-> FALSE],
                              3 * Len(sc.toks) + 4))
    IN  Parsed(yamlScan(data, ScanStart, Len(data) + 2))

\* isVersionFileValid: whether the data parses, and the parsed file; after
\* an error it returns VersionFile{}, not what was decoded before the error
isVersionFileValid(fileData) ==
    LET Filled(u) == [ok |-> ~u.err,
                      vFile |-> [Version |-> IF u.err THEN <<>> ELSE u.Version]]
    IN  Filled(yamlUnmarshal(fileData))

\* doesVersionFileContainVersionKey: a non-empty Version
doesVersionFileContainVersionKey(vFile) ==
    [ok |-> Len(vFile.Version) > 0, version |-> vFile.Version]

-----------------------------------------------------------------------------
(* Paths and the file system.                                              *)

SavingFileName == ".sud"
TempTarFilename == "temp.tar.gz"
TempExtractionDirectory == "extracted"

\* path.Clean / filepath.Clean of a relative path given by its segments
RECURSIVE CleanInto(_, _)
CleanInto(acc, rest) ==
    IF rest = <<>> THEN acc
    ELSE IF Head(rest) \in {"", "."} THEN CleanInto(acc, Tail(rest))
    ELSE IF Head(rest) = ".."
    THEN IF acc # <<>> /\ acc[Len(acc)] # ".."
         THEN CleanInto(SubSeq(acc, 1, Len(acc) - 1), Tail(rest))
         ELSE CleanInto(Append(acc, ".."), Tail(rest))
    ELSE CleanInto(Append(acc, Head(rest)), Tail(rest))

\* path.Join / filepath.Join: the elements joined by separators, then cleaned
Join(a, b) == CleanInto(<<>>, a \o b)

IsPrefix(p, q) == Len(p) <= Len(q) /\ SubSeq(q, 1, Len(p)) = p

\* p lies inside directory d (or is d itself)
Inside(p, d) == IsPrefix(d, p)

Parent(p) == SubSeq(p, 1, Len(p) - 1)

Prefixes(p) == {SubSeq(p, 1, k) : k \in 0..Len(p)}

IsDir(f, p) == p \in f.dirs
IsFile(f, p) == p \in DOMAIN f.files
Exists(f, p) == IsDir(f, p) \/ IsFile(f, p)

\* !os.IsNotExist(err) of os.Stat(p): the path is there, or a component of
\* it is a regular file (ENOTDIR is not "does not exist")
NotMissing(f, p) ==
    Exists(f, p) \/ \E q \in Prefixes(p) : q # p /\ IsFile(f, q)

outputDirectoryExists(f, outPath) == NotMissing(f, outPath)

doesVersionFileExists(f, outPath) ==
    NotMissing(f, Join(outPath, <<SavingFileName>>))

\* os.MkdirAll: the directory and every missing parent; fails on a file
MkdirAll(f, p) ==
    IF \E q \in Prefixes(p) : IsFile(f, q)
    THEN [fs |-> f, err |-> TRUE]
    ELSE [fs |-> [f EXCEPT !.dirs = @ \cup Prefixes(p)], err |-> FALSE]

\* a file written from offset 0 without truncation keeps its old tail
Overwrite(old, data) == data \o SubSeq(old, Len(data) + 1, Len(old))

\* the file system with path p holding content c
PutFile(f, p, c) ==
    [f EXCEPT !.files = [q \in (DOMAIN @) \cup {p} |-> IF q = p THEN c ELSE @[q]]]

\* os.RemoveAll
RemoveAll(f, p) ==
    [files |-> [q \in {r \in DOMAIN f.files : ~Inside(r, p)} |-> f.files[q]],
     dirs |-> {d \in f.dirs : ~Inside(d, p)}]

-----------------------------------------------------------------------------
(* The extractor.                                                          *)

\* one step of untar's loop: the entry written under dst
untarEntry(f, dst, e) ==
    LET target == Join(dst, e.name) IN
    IF e.type = "dir"
    THEN IF Exists(f, target) THEN [fs |-> f, err |-> FALSE]
         ELSE MkdirAll(f, target)
    ELSE IF e.type = "reg"
    THEN IF IsDir(f, target) \/ ~IsDir(f, Parent(target))
         THEN [fs |-> f, err |-> TRUE]
         ELSE [fs |-> PutFile(f, target,
                         IF IsFile(f, target)
                         THEN Overwrite(f.files[target], e.data)
                         ELSE e.data),
               err |-> FALSE]
    ELSE [fs |-> f, err |-> FALSE]

\* untar's loop from entry i on; a truncated stream ends in an error
RECURSIVE untarFrom(_, _, _, _)
untarFrom(f, dst, ar, i) ==
    IF i > Len(ar.entries)
    THEN [fs |-> f, err |-> ar.truncated]
    ELSE LET r == untarEntry(f, dst, ar.entries[i]) IN
         IF r.err THEN r ELSE untarFrom(r.fs, dst, ar, i + 1)

\* untar(dst, r): gzip.NewReader fails on a stream that is not gzip
untar(f, dst, ar) ==
    IF ~ar.gzip THEN [fs |-> f, err |-> TRUE]
    ELSE untarFrom(f, dst, ar, 1)

-----------------------------------------------------------------------------
(* Relocation and cleanup.                                                 *)

\* the names a directory listing can hold, in byte order (ioutil.ReadDir
\* returns its entries sorted by file name)
NameOrd(n) ==
    LET NameOrder == << ".sud", "abs", "dist", "evil", "extracted", "index", "out",
                        "pkg1", "pkg2", "temp.tar.gz" >>
    IN  CHOOSE i \in 1..Len(NameOrder) : NameOrder[i] = n

\* the names of ioutil.ReadDir(d): empty when d is no directory (the error is
\* dropped by the caller)
ReadDirNames(f, d) ==
    IF ~IsDir(f, d) THEN {}
    ELSE {p[Len(d) + 1] : p \in {q \in f.dirs \cup DOMAIN f.files :
                                      Inside(q, d) /\ Len(q) > Len(d)}}

\* subdirs[0].Name(): the first name of the sorted listing
FirstName(names) ==
    CHOOSE n \in names : \A m \in names : NameOrd(n) <= NameOrd(m)

\* the names of a listing as ioutil.ReadDir returns them: sorted
RECURSIVE SortNames(_)
SortNames(names) ==
    IF names = {} THEN <<>>
    ELSE <<FirstName(names)>> \o SortNames(names \ {FirstName(names)})

\* copier.Copy visiting p, to be copied to target; st holds the file system,
\* whether the copy has failed, and the number of visits so far. The visit
\* number k fails: a directory is not created; a file is not created
\* ("create"), or it is created or truncated and left empty ("write").
\* A directory is created first, then its entries are visited by name.
RECURSIVE copyNode(_, _, _, _, _)
RECURSIVE copyNames(_, _, _, _, _, _)
copyNode(st, p, target, k, kind) ==
    LET n1 == st.n + 1
        failed == [fs |-> st.fs, err |-> TRUE, n |-> n1]
    IN
    IF st.err THEN st
    ELSE IF IsDir(st.fs, p)
    THEN IF n1 = k \/ MkdirAll(st.fs, target).err THEN failed
         ELSE copyNames([fs |-> MkdirAll(st.fs, target).fs, err |-> FALSE, n |-> n1],
                        p, target, SortNames(ReadDirNames(st.fs, p)), k, kind)
    ELSE IF (n1 = k /\ kind = "create") \/ MkdirAll(st.fs, Parent(target)).err
            \/ IsDir(st.fs, target)
    THEN failed
    ELSE IF n1 = k
    THEN [fs |-> PutFile(MkdirAll(st.fs, Parent(target)).fs, target, <<>>),
          err |-> TRUE, n |-> n1]
    ELSE [fs |-> PutFile(MkdirAll(st.fs, Parent(target)).fs, target, st.fs.files[p]),
          err |-> FALSE, n |-> n1]

copyNames(st, p, target, names, k, kind) ==
    IF names = <<>> \/ st.err THEN st
    ELSE copyNames(copyNode(st, Append(p, Head(names)), Append(target, Head(names)),
                            k, kind),
                   p, target, Tail(names), k, kind)

\* copier.Copy(src, dst) with its visit number k failing (none for k = 0)
CopyTree(f, src, dst, k, kind) ==
    copyNode([fs |-> f, err |-> FALSE, n |-> 0], src, dst, k, kind)

\* the directory copyContentsToOutput copies from: src/<first entry>/dist
copySource(f, src) ==
    Join(src, <<FirstName(ReadDirNames(f, src)), "", "dist">>)

\* copyContentsToOutput(src, outPath): "panic" when the listing is empty
\* (subdirs[0] is out of range), "err" when copier.Copy fails: its source is
\* missing, a path is in its way, or its visit number k fails
copyContentsToOutput(f, src, outPath, k, kind) ==
    IF ReadDirNames(f, src) = {} THEN [fs |-> f, res |-> "panic"]
    ELSE IF ~Exists(f, copySource(f, src)) THEN [fs |-> f, res |-> "err"]
    ELSE [fs |-> CopyTree(f, copySource(f, src), outPath, k, kind).fs,
          res |-> IF CopyTree(f, copySource(f, src), outPath, k, kind).err
                  THEN "err" ELSE "ok"]

\* os.RemoveAll(p) that cannot remove the paths of stuck: it goes on after a
\* failure, so the rest of the tree is removed and the paths of stuck stay
RemoveAllBut(f, p, stuck) ==
    [files |-> [q \in {r \in DOMAIN f.files : ~Inside(r, p) \/ r \in stuck}
                  |-> f.files[q]],
     dirs |-> {d \in f.dirs : ~Inside(d, p) \/ d \in stuck}]

\* os.Remove(p) fails on a missing path and on a directory that is not empty
RemoveFails(f, p) ==
    \/ ~Exists(f, p)
    \/ IsDir(f, p) /\ \E q \in f.dirs \cup DOMAIN f.files : Inside(q, p) /\ q # p

\* clearRemaining: the error of os.RemoveAll (rmAllErr, the paths of stuck
\* staying) is overwritten by that of os.Remove, which alone is returned
clearRemaining(f, rmAllErr, stuck, rmErr) ==
    LET f1 == IF rmAllErr THEN RemoveAllBut(f, <<TempExtractionDirectory>>, stuck)
              ELSE RemoveAll(f, <<TempExtractionDirectory>>)
        fails == rmErr \/ RemoveFails(f1, <<TempTarFilename>>)
        f2 == IF fails THEN f1 ELSE RemoveAll(f1, <<TempTarFilename>>)
    IN  [fs |-> f2, err |-> fails]

\* setLatestVersion writing the marker from offset 0 without truncating it
setLatestVersionNoTrunc(f, outPath, version, fault) ==
    LET target == Join(outPath, <<SavingFileName>>) IN
    IF fault = "open" \/ IsDir(f, target) \/ ~IsDir(f, outPath)
    THEN [fs |-> f, err |-> TRUE]
    ELSE IF fault = "write"
    THEN [fs |-> f, err |-> TRUE]
    ELSE [fs |-> PutFile(f, target,
                    IF IsFile(f, target)
                    THEN Overwrite(f.files[target], yamlMarshal(version))
                    ELSE yamlMarshal(version)),
          err |-> FALSE]

\* setLatestVersion: ioutil.WriteFile creates or truncates the marker, then
\* writes it; "open" fails before the file is touched, "write" after it was
\* truncated
setLatestVersion(f, outPath, version, fault) ==
    LET marker == Join(outPath, <<SavingFileName>>) IN
    IF fault = "open" \/ IsDir(f, marker) \/ ~IsDir(f, outPath)
    THEN [fs |-> f, err |-> TRUE]
    ELSE IF fault = "write"
    THEN [fs |-> PutFile(f, marker, <<>>), err |-> TRUE]
    ELSE [fs |-> PutFile(f, marker, yamlMarshal(version)), err |-> FALSE]

-----------------------------------------------------------------------------
(* The inputs of a run: what the releases endpoint answers and the archive *)
(* behind its tarball URL.                                                 *)

DirEntry(name) == [name |-> name, type |-> "dir", data |-> <<>>]
RegEntry(name, data) == [name |-> name, type |-> "reg", data |-> data]

Tar(entries) == [gzip |-> TRUE, truncated |-> FALSE, entries |-> entries]

\* a release archive: one generated top-level directory holding dist/index
Payload(top, data) ==
    << DirEntry(<<top>>), DirEntry(<<top, "dist">>),
       RegEntry(<<top, "dist", "index">>, data) >>

GoodTar1 == Tar(Payload("pkg1", <<"a", "b">>))
GoodTar2 == Tar(Payload("pkg2", <<"c">>))
\* the same path as GoodTar1 with a shorter file
ShortTar1 == Tar(Payload("pkg1", <<"d">>))
\* an entry that climbs out of the destination: ../evil
TraversalTar ==
    Tar(Payload("pkg1", <<"a", "b">>) \o << RegEntry(<<"..", "evil">>, <<"e">>) >>)
\* an entry with an absolute name: /abs
AbsoluteTar ==
    Tar(Payload("pkg1", <<"a", "b">>) \o << RegEntry(<<"", "abs">>, <<"e">>) >>)
\* a payload that holds a file named like the marker, <top>/dist/.sud, and
\* an entry that climbs out of the destination onto the marker of the
\* working directory, ../.sud
MarkerTar ==
    Tar(<< DirEntry(<<"pkg1">>), DirEntry(<<"pkg1", "dist">>),
           RegEntry(<<"pkg1", "dist", SavingFileName>>, <<"{">>),
           RegEntry(<<"pkg1", "dist", "index">>, <<"a", "b">>),
           RegEntry(<<"..", SavingFileName>>, <<"{">>) >>)
\* two top-level directories
TwoTopTar == Tar(Payload("pkg1", <<"a", "b">>) \o << DirEntry(<<"pkg2">>) >>)
\* no entry at all
EmptyTar == Tar(<<>>)
\* a top-level directory without dist
NoDistTar == Tar(<< DirEntry(<<"pkg1">>) >>)
\* a stream that breaks off after its first entries
TruncatedTar ==
    [gzip |-> TRUE, truncated |-> TRUE,
     entries |-> << DirEntry(<<"pkg1">>), DirEntry(<<"pkg1", "dist">>) >>]
\* a body that is no gzip stream (an error page, a file cut short)
NotGzip == [gzip |-> FALSE, truncated |-> TRUE, entries |-> <<>>]

V(a, b, c) == a \o <<".">> \o b \o <<".">> \o c

Tag_v1_2_3 == <<"v">> \o V(<<"1">>, <<"2">>, <<"3">>)

Release(tag, tarball) == [TagName |-> tag, Tarball |-> tarball]

\* what fetchLatestReleaseInfo can answer
Releases ==
    { Release(Tag_v1_2_3, GoodTar1),
      Release(<<"v">> \o V(<<"1">>, <<"9">>, <<"9">>), GoodTar2),
      Release(<<"v">> \o V(<<"1", "0">>, <<"0">>, <<"0">>), GoodTar2),
      Release(<<"v">> \o V(<<"0">>, <<"0">>, <<"0">>), GoodTar1),
      Release(<<"v">> \o V(<<"x">>, <<"0">>, <<"0">>), GoodTar1),
      Release(Tag_v1_2_3, MarkerTar),
      Release(Tag_v1_2_3, TwoTopTar),
      Release(Tag_v1_2_3, EmptyTar),
      Release(Tag_v1_2_3, TruncatedTar) }

\* what the marker file can hold before the first run
InitialMarkers ==
    { yamlMarshal(v) : v \in { V(<<"1">>, <<"2">>, <<"3">>),
                                V(<<"2">>, <<"0">>, <<"0">>),
                                V(<<"9">>, <<"0">>, <<"0">>),
                                <<"v">> \o V(<<"1">>, <<"2">>, <<"3">>),
                                <<"1", ".", "2">>,
                                V(<<"x">>, <<"0">>, <<"0">>) } }
    \cup
    { <<"x", ":", " ", "1", "\n">>,
      <<"x", ":", " ", "1", "\n">> \o VersionKey \o V(<<"1">>, <<"2">>, <<"3">>),
      <<"{">>,
      <<>> }

\* the values of --out: the default, and a directory beneath the working one
OutArgs == { <<".">>, <<"out">> }

-----------------------------------------------------------------------------
(* The orchestrator: main, run up to MaxRuns times against one directory.  *)

VARIABLES
    fs,                     \* the file system: [files, dirs]
    out,                    \* arg.Out
    run,                    \* the number of the current run
    pc,                     \* the step main is about to take
    previousVersionParts,   \* main's previousVersionParts
    response,               \* main's response (TagName, Tarball), once fetched
    outcome,                \* "running", or how the run ended
    failedAt,               \* the step that ended the run, "none" otherwise
    steps,                  \* the steps the run completed, in order
    markerLoad,             \* what the run found when it looked for the marker
    start,                  \* the file system when the run started
    last,                   \* the previous run: its outcome and tag
    faults,                 \* the I/O faults injected so far
    sem,                    \* the inputs and results of the version comparison
    store                   \* the marker's save and load on their own

vars == << fs, out, run, pc, previousVersionParts, response, outcome, failedAt,
           steps, markerLoad, start, last, faults, sem, store >>

\* getAbsoluteOutputPath: the working directory joined with arg.Out
outputPath == Join(<<>>, out)

MarkerPath == Join(outputPath, <<SavingFileName>>)
StagingPath == Join(<<".">>, <<TempExtractionDirectory>>)
TarPath == <<TempTarFilename>>

NoResponse == Release(<<>>, NotGzip)
NoRun == [outcome |-> "none", tag |-> <<>>]
NoSem == [stage |-> "idle", a |-> Baseline, b |-> Baseline,
          newer |-> "none", cmp |-> 0]
NoStore == [stage |-> "idle", saved |-> <<>>, loaded |-> <<>>, status |-> "none"]

\* the process exit status of an ended run: os.Exit(0) and the return from
\* main give 0, logErrorFatal gives 1, a Go panic gives 2
ExitStatus(o) ==
    IF o \in {"up_to_date", "synced"} THEN 0 ELSE IF o = "failed" THEN 1 ELSE 2

\* the working directory and its parent exist and may hold a marker; an
\* output directory beneath the working directory does not exist yet
Init ==
    /\ out \in OutArgs
    /\ \E haveOut \in BOOLEAN, haveMarker \in BOOLEAN, m \in InitialMarkers :
          /\ (out = <<".">> <=> haveOut)
          /\ (~haveOut => ~haveMarker)
          /\ fs = [files |-> IF haveMarker THEN [q \in {MarkerPath} |-> m]
                             ELSE <<>>,
                   dirs |-> {<<>>, <<"..">>} \cup
                            (IF haveOut THEN {outputPath} ELSE {})]
    /\ run = 1
    /\ pc = "check_marker"
    /\ previousVersionParts = Baseline
    /\ response = NoResponse
    /\ outcome = "running"
    /\ failedAt = "none"
    /\ steps = <<>>
    /\ markerLoad = "none"
    /\ start = fs
    /\ last = NoRun
    /\ faults = 0
    /\ sem = NoSem
    /\ store = NoStore

\* the run ends: logErrorFatal, os.Exit(0), a panic, or the return from main
End(how, at) ==
    /\ pc' = "exited"
    /\ outcome' = how
    /\ failedAt' = at

Goto(next, done) ==
    /\ pc' = next
    /\ steps' = Append(steps, done)
    /\ UNCHANGED <<outcome, failedAt>>

\* what main makes of the marker's bytes (main.go lines 212-227)
LoadedFrom(data) ==
    LET Checked(r) ==
            IF ~r.ok THEN "invalid_file"
            ELSE IF ~doesVersionFileContainVersionKey(r.vFile).ok THEN "no_version"
            ELSE IF ~isVersionValueValid(sanitizeVersion(
                        doesVersionFileContainVersionKey(r.vFile).version))
            THEN "invalid_version"
            ELSE "ok"
    IN  Checked(isVersionFileValid(data))

\* the version main reads from the marker's bytes, sanitized
LoadedVersion(data) ==
    sanitizeVersion(
        doesVersionFileContainVersionKey(isVersionFileValid(data).vFile).version)

LoadedParts(data) ==
    splitSemver(sanitizeVersion(
        doesVersionFileContainVersionKey(isVersionFileValid(data).vFile).version))

\* the environment injects an I/O fault (b) only while its budget lasts
Fault(b) ==
    /\ b => faults < MaxFaults
    /\ faults' = IF b THEN faults + 1 ELSE faults

\* main.go lines 203-242: look for the output directory and the marker, or
\* create the output directory
CheckMarker ==
    /\ pc = "check_marker"
    /\ \E readErr \in BOOLEAN, mkErr \in BOOLEAN :
        Fault(readErr \/ mkErr) /\
        IF outputDirectoryExists(fs, outputPath)
        THEN /\ ~mkErr
             /\ IF ~doesVersionFileExists(fs, outputPath)
                THEN /\ ~readErr
                     /\ markerLoad' = "absent"
                     /\ UNCHANGED previousVersionParts
                ELSE IF readErr \/ ~IsFile(fs, MarkerPath)
                THEN /\ markerLoad' = "unreadable"
                     /\ UNCHANGED previousVersionParts
                ELSE /\ markerLoad' = LoadedFrom(fs.files[MarkerPath])
                     /\ previousVersionParts' =
                            IF LoadedFrom(fs.files[MarkerPath]) = "ok"
                            THEN LoadedParts(fs.files[MarkerPath])
                            ELSE previousVersionParts
             /\ Goto("fetch", "check_marker")
             /\ UNCHANGED fs
        ELSE /\ ~readErr
             /\ markerLoad' = "no_directory"
             /\ UNCHANGED previousVersionParts
             /\ IF mkErr \/ MkdirAll(fs, outputPath).err
                THEN /\ End("failed", "create_output")
                     /\ UNCHANGED <<fs, steps>>
                ELSE /\ fs' = MkdirAll(fs, outputPath).fs
                     /\ Goto("fetch", "create_output")
    /\ UNCHANGED <<out, run, response, start, last, sem,
                   store>>

\* main.go lines 244-254: fetch the release information, sanitize its tag
FetchRelease ==
    /\ pc = "fetch"
    /\ \/ /\ End("failed", "fetch")
          /\ Fault(TRUE)
          /\ UNCHANGED <<response, steps>>
       \/ \E r \in Releases :
          /\ response' = [r EXCEPT !.TagName = sanitizeVersion(@)]
          /\ Goto("compare", "fetch")
          /\ Fault(FALSE)
    /\ UNCHANGED <<fs, out, run, previousVersionParts, markerLoad, start, last, sem,
                   store>>

\* main.go lines 254-261: split the tag and compare it with the marker's
CompareVersions ==
    /\ pc = "compare"
    /\ LET newer == existsNewerVersion(previousVersionParts,
                                       splitSemver(response.TagName)) IN
       IF newer = "panic"
       THEN End("panic", "compare") /\ UNCHANGED steps
       ELSE IF newer = "false"
       THEN End("up_to_date", "none") /\ UNCHANGED steps
       ELSE Goto("download", "compare")
    /\ UNCHANGED <<fs, out, run, previousVersionParts, response, markerLoad,
                   start, last, faults, sem,
                   store>>

\* downloadTheTarball: the GET fails, or ioutil.WriteFile cannot open
\* temp.tar.gz because it is a directory (nothing changes), or the write fails
\* after the file was created, or the body is written to temp.tar.gz
downloadTheTarball(f, body, fault) ==
    IF fault = "get" \/ IsDir(f, TarPath) THEN [fs |-> f, err |-> TRUE]
    ELSE IF fault = "write" THEN [fs |-> PutFile(f, TarPath, NotGzip), err |-> TRUE]
    ELSE [fs |-> PutFile(f, TarPath, body), err |-> FALSE]

\* main.go lines 263-268
Download ==
    /\ pc = "download"
    /\ \E fault \in {"none", "get", "write"} :
        LET r == downloadTheTarball(fs, response.Tarball, fault) IN
        /\ Fault(fault # "none")
        /\ fs' = r.fs
        /\ IF r.err THEN End("failed", "download") /\ UNCHANGED steps
           ELSE Goto("extract", "download")
    /\ UNCHANGED <<out, run, previousVersionParts, response, markerLoad, start, last,
                   sem,
                   store>>

\* extract: open temp.tar.gz and untar it into ./extracted
extract(f) ==
    IF ~IsFile(f, TarPath) THEN [fs |-> f, err |-> TRUE]
    ELSE untar(f, StagingPath, f.files[TarPath])

\* main.go lines 269-274
Extract ==
    /\ pc = "extract"
    /\ fs' = extract(fs).fs
    /\ Fault(FALSE)
    /\ IF extract(fs).err THEN End("failed", "extract") /\ UNCHANGED steps
       ELSE Goto("relocate", "extract")
    /\ UNCHANGED <<out, run, previousVersionParts, response, markerLoad, start, last,
                   sem,
                   store>>

\* the number of visits copier.Copy makes in a relocation
RelocateVisits(f) ==
    IF ReadDirNames(f, StagingPath) = {} \/ ~Exists(f, copySource(f, StagingPath))
    THEN 0
    ELSE CopyTree(f, copySource(f, StagingPath), outputPath, 0, "create").n

\* main.go lines 275-280; an I/O error stops the copy at one of its visits
Relocate ==
    /\ pc = "relocate"
    /\ \E k \in 0..RelocateVisits(fs), kind \in {"create", "write"} :
        LET r == copyContentsToOutput(fs, StagingPath, outputPath, k, kind) IN
        /\ Fault(k > 0)
        /\ k = 0 => kind = "create"
        /\ fs' = r.fs
        /\ IF r.res = "panic" THEN End("panic", "relocate") /\ UNCHANGED steps
           ELSE IF r.res = "err" THEN End("failed", "relocate") /\ UNCHANGED steps
           ELSE Goto("cleanup", "relocate")
    /\ UNCHANGED <<out, run, previousVersionParts, response, markerLoad, start, last,
                   sem,
                   store>>

\* what a failing os.RemoveAll can leave of the staging tree: any paths of
\* it, with the directories they are in; none when it does not fail
StuckAt(f, rmAllErr) ==
    IF rmAllErr
    THEN {stuck \in SUBSET {p \in f.dirs \cup DOMAIN f.files : Inside(p, StagingPath)} :
             /\ stuck # {}
             /\ \A p \in stuck : p = StagingPath \/ Parent(p) \in stuck}
    ELSE {{}}

\* main.go lines 281-286
Cleanup ==
    /\ pc = "cleanup"
    /\ \E rmAllErr \in BOOLEAN, rmErr \in BOOLEAN :
       \E stuck \in StuckAt(fs, rmAllErr) :
        LET r == clearRemaining(fs, rmAllErr, stuck, rmErr) IN
        /\ Fault(rmAllErr \/ rmErr)
        /\ fs' = r.fs
        /\ IF r.err THEN End("failed", "cleanup") /\ UNCHANGED steps
           ELSE Goto("record", "cleanup")
    /\ UNCHANGED <<out, run, previousVersionParts, response, markerLoad, start, last,
                   sem,
                   store>>

\* main.go lines 287-293
Record ==
    /\ pc = "record"
    /\ \E fault \in {"none", "open", "write"} :
        LET r == setLatestVersion(fs, outputPath, response.TagName, fault) IN
        /\ Fault(fault # "none")
        /\ fs' = r.fs
        /\ IF r.err
           THEN End("failed", "record") /\ UNCHANGED steps
           ELSE End("synced", "none") /\ steps' = Append(steps, "record")
    /\ UNCHANGED <<out, run, previousVersionParts, response, markerLoad, start, last,
                   sem,
                   store>>

\* the program is started again against the same directory
NextRun ==
    /\ pc = "exited"
    /\ run < MaxRuns
    /\ run' = run + 1
    /\ pc' = "check_marker"
    /\ previousVersionParts' = Baseline
    /\ response' = NoResponse
    /\ outcome' = "running"
    /\ failedAt' = "none"
    /\ steps' = <<>>
    /\ markerLoad' = "none"
    /\ start' = fs
    /\ last' = [outcome |-> outcome, tag |-> response.TagName]
    /\ UNCHANGED <<fs, out, faults, sem,
                   store>>

Next ==
    \/ CheckMarker
    \/ FetchRelease
    \/ CompareVersions
    \/ Download
    \/ Extract
    \/ Relocate
    \/ Cleanup
    \/ Record
    \/ NextRun

Spec == Init /\ [][Next]_vars

-----------------------------------------------------------------------------
(* The version comparison on its own: existsNewerVersion and diffSemvers   *)
(* applied to every pair of three-component versions over Components.      *)

Components == { <<"0">>, <<"1">>, <<"2">>, <<"9">>, <<"1", "0">> }

Versions == { <<x, y, z>> : x \in Components, y \in Components, z \in Components }

SemInit ==
    /\ sem \in { [stage |-> "input", a |-> a, b |-> b, newer |-> "none", cmp |-> 0] :
                    a \in Versions, b \in Versions }
    /\ out = <<".">>
    /\ fs = [files |-> <<>>, dirs |-> {<<>>, <<"..">>}]
    /\ run = 1
    /\ pc = "idle"
    /\ previousVersionParts = Baseline
    /\ response = NoResponse
    /\ outcome = "running"
    /\ failedAt = "none"
    /\ steps = <<>>
    /\ markerLoad = "none"
    /\ start = fs
    /\ last = NoRun
    /\ faults = 0
    /\ store = NoStore

\* isNewer: existsNewerVersion(previous = a, current = b)
ApplyExistsNewer ==
    /\ sem.stage = "input"
    /\ sem' = [sem EXCEPT !.stage = "newer",
                          !.newer = existsNewerVersion(sem.a, sem.b)]
    /\ UNCHANGED <<fs, out, run, pc, previousVersionParts, response, outcome,
                   failedAt, steps, markerLoad, start, last, faults, store>>

\* compare: diffSemvers(a, b)
ApplyDiff ==
    /\ sem.stage = "newer"
    /\ sem' = [sem EXCEPT !.stage = "done", !.cmp = diffSemvers(sem.a, sem.b)]
    /\ UNCHANGED <<fs, out, run, pc, previousVersionParts, response, outcome,
                   failedAt, steps, markerLoad, start, last, faults, store>>

SemNext == ApplyExistsNewer \/ ApplyDiff

SemverSpec == SemInit /\ [][SemNext]_vars

-----------------------------------------------------------------------------
(* The extractor on its own: untar applied to every archive, into a        *)
(* staging directory that is absent or was left behind by an earlier       *)
(* extraction.                                                             *)

Archives ==
    { GoodTar1, GoodTar2, ShortTar1, TraversalTar, AbsoluteTar, TwoTopTar,
      EmptyTar, NoDistTar, TruncatedTar, NotGzip }

EmptyFs == [files |-> <<>>, dirs |-> {<<>>, <<"..">>}]

UntarInit ==
    /\ \E before \in Archives :
          fs = untar(EmptyFs, StagingPath, before).fs
    /\ \E ar \in Archives : response = Release(<<>>, ar)
    /\ out = <<".">>
    /\ run = 1
    /\ pc = "untar"
    /\ previousVersionParts = Baseline
    /\ outcome = "running"
    /\ failedAt = "none"
    /\ steps = <<>>
    /\ markerLoad = "none"
    /\ start = fs
    /\ last = NoRun
    /\ faults = 0
    /\ sem = NoSem
    /\ store = NoStore

\* untar(./extracted, the archive)
ApplyUntar ==
    /\ pc = "untar"
    /\ fs' = untar(fs, StagingPath, response.Tarball).fs
    /\ failedAt' = IF untar(fs, StagingPath, response.Tarball).err
                   THEN "extract" ELSE "none"
    /\ pc' = "untar_done"
    /\ UNCHANGED <<out, run, previousVersionParts, response, outcome, steps,
                   markerLoad, start, last, faults, sem,
                   store>>

UntarNext == ApplyUntar

UntarSpec == UntarInit /\ [][UntarNext]_vars

-----------------------------------------------------------------------------
(* The marker on its own: setLatestVersion and the loading steps of main   *)
(* applied to valid versions, over a marker that is absent, holds the      *)
(* bytes an earlier run or a user left, or is a directory.                 *)

\* versions isVersionValueValid accepts: 1.2.3, 10.0.0, 0.0.0, 1, 1.2,
\* +1.2.3, 1.2.3.4, -0
StoreVersions ==
    { V(<<"1">>, <<"2">>, <<"3">>),
      V(<<"1", "0">>, <<"0">>, <<"0">>),
      V(<<"0">>, <<"0">>, <<"0">>),
      <<"1">>,
      <<"1", ".", "2">>,
      <<"+">> \o V(<<"1">>, <<"2">>, <<"3">>),
      V(<<"1">>, <<"2">>, <<"3">>) \o <<".", "4">>,
      <<"-", "0">> }

StoreInit ==
    /\ out \in OutArgs
    /\ \/ \E haveMarker \in BOOLEAN, m \in InitialMarkers :
             fs = [files |-> IF haveMarker THEN [q \in {MarkerPath} |-> m]
                             ELSE <<>>,
                   dirs |-> {<<>>, <<"..">>, outputPath}]
       \/ fs = [files |-> <<>>, dirs |-> {<<>>, <<"..">>, outputPath, MarkerPath}]
    /\ run = 1
    /\ pc = "store"
    /\ previousVersionParts = Baseline
    /\ response = NoResponse
    /\ outcome = "running"
    /\ failedAt = "none"
    /\ steps = <<>>
    /\ markerLoad = "none"
    /\ start = fs
    /\ last = NoRun
    /\ faults = 0
    /\ sem = NoSem
    /\ store = NoStore

\* save: setLatestVersion(outputPath, v)
SaveMarker ==
    /\ pc = "store"
    /\ \E v \in StoreVersions, fault \in {"none", "open", "write"} :
        LET r == setLatestVersion(fs, outputPath, v, fault) IN
        /\ fs' = r.fs
        /\ store' = [stage |-> IF r.err THEN "save_failed" ELSE "saved",
                     saved |-> v, loaded |-> <<>>, status |-> "none"]
    /\ UNCHANGED <<out, run, pc, previousVersionParts, response, outcome,
                   failedAt, steps, markerLoad, start, last, faults, sem>>

\* load: main.go lines 205-232 on the marker of the output directory; the
\* read of a marker that exists fails when the environment makes it fail
\* (readErr) and when the marker is a directory
LoadMarker ==
    /\ pc = "store"
    /\ store.stage \in {"idle", "saved", "save_failed"}
    /\ \E readErr \in BOOLEAN :
        /\ readErr => doesVersionFileExists(fs, outputPath)
        /\ store' =
             [store EXCEPT
                !.stage = IF @ = "saved" THEN "loaded" ELSE "read",
                !.status = IF ~doesVersionFileExists(fs, outputPath) THEN "absent"
                           ELSE IF readErr \/ ~IsFile(fs, MarkerPath) THEN "unreadable"
                           ELSE LoadedFrom(fs.files[MarkerPath]),
                !.loaded = IF ~readErr /\ IsFile(fs, MarkerPath)
                              /\ LoadedFrom(fs.files[MarkerPath]) = "ok"
                           THEN LoadedVersion(fs.files[MarkerPath])
                           ELSE <<>>]
    /\ UNCHANGED <<fs, out, run, pc, previousVersionParts, response, outcome,
                   failedAt, steps, markerLoad, start, last, faults, sem>>

StoreNext == SaveMarker \/ LoadMarker

MarkerSpec == StoreInit /\ [][StoreNext]_vars

-----------------------------------------------------------------------------
(* Properties.                                                             *)

HasStep(s) == \E i \in 1..Len(steps) : steps[i] = s

\* the content of the marker file, if there is one
MarkerOf(f) == IF IsFile(f, MarkerPath) THEN <<f.files[MarkerPath]>> ELSE <<>>

AllPaths(f) == f.dirs \cup DOMAIN f.files

\* the run is past COMPARE_VERSIONS
Compared == HasStep("fetch") /\ pc # "compare"

\* C1: the marker is written only after download, extract and relocate have
\* succeeded, and a run that fails in one of them ends with the marker as it
\* was when the run started
C1_MarkerOnlyAfterRelocate ==
    /\ MarkerOf(fs) # MarkerOf(start) =>
          HasStep("download") /\ HasStep("extract") /\ HasStep("relocate")
    /\ pc = "exited" /\ failedAt \in {"download", "extract", "relocate"} =>
          MarkerOf(fs) = MarkerOf(start)

\* C2: a run that entered DOWNLOAD ends with neither the staging directory
\* nor the temporary archive left
C2_NoLeftovers ==
    pc = "exited" /\ HasStep("compare") =>
        ~Exists(fs, StagingPath) /\ ~Exists(fs, TarPath)

\* the remote tag is a version: it is valid and has three components
ValidRemote(tag) == isVersionValueValid(tag) /\ Len(splitSemver(tag)) = 3

\* C3: a run that follows a successful sync of the same remote version, and
\* reads the marker that sync wrote, ends up to date with the file system
\* untouched and no download
C3_SecondRunUpToDate ==
    /\ run > 1
    /\ last.outcome = "synced"
    /\ Compared
    /\ response.TagName = last.tag
    /\ isVersionValueValid(last.tag)
    /\ markerLoad # "unreadable"
    => /\ pc = "exited"
       /\ outcome = "up_to_date"
       /\ ~HasStep("download")
       /\ fs = start
       /\ start.files[MarkerPath] = yamlMarshal(last.tag)

\* the second of two runs with the same remote version ended up to date
C3_Witness ==
    /\ run = 2
    /\ last.outcome = "synced"
    /\ pc = "exited"
    /\ response.TagName = last.tag
    /\ isVersionValueValid(last.tag)
    /\ markerLoad = "ok"
    /\ outcome = "up_to_date"

\* C4: a run that ends up to date has written nothing, also when the output
\* directory did not exist
C4_UpToDateWritesNothing ==
    outcome = "up_to_date" => fs = start

\* C5: over three-component versions, existsNewerVersion(a, b) is true
\* exactly when diffSemvers(a, b) is LESS (-1)
C5_IsNewerIffLess ==
    sem.stage = "done" => ((sem.newer = "true") <=> (sem.cmp = -1))

\* C6: when the first differing component of the marker's version is greater
\* than the remote's, the run ends up to date: no download, the file system
\* as it was, exit status 0
C6_OlderRemoteUpToDate ==
    /\ Compared
    /\ markerLoad = "ok"
    /\ Len(previousVersionParts) = 3
    /\ ValidRemote(response.TagName)
    /\ diffSemvers(previousVersionParts, splitSemver(response.TagName)) = 1
    => /\ pc = "exited"
       /\ outcome = "up_to_date"
       /\ ExitStatus(outcome) = 0
       /\ MarkerOf(fs) = MarkerOf(start)
       /\ ~Exists(fs, TarPath)

\* the target of an entry escapes the destination, or its name is absolute
Escapes(e, dst) ==
    ~Inside(Join(dst, e.name), dst) \/ (e.name # <<>> /\ e.name[1] = "")

\* C7: extraction creates nothing outside its destination, and an archive
\* with an escaping entry makes it fail
C7_ExtractStaysInside ==
    pc = "untar_done" =>
        /\ \A p \in AllPaths(fs) \ AllPaths(start) : Inside(p, StagingPath)
        /\ (\E i \in 1..Len(response.Tarball.entries) :
               Escapes(response.Tarball.entries[i], StagingPath))
           => failedAt = "extract"

\* C8: when the staging area does not hold exactly one top-level entry, the
\* relocation fails (a crash counted as a failure too), copies nothing and
\* leaves the marker alone, and the staging area is purged
C8_RelocateNeedsOneEntry ==
    [][pc = "relocate" /\ Cardinality(ReadDirNames(fs, StagingPath)) # 1 =>
         /\ outcome' \in {"failed", "panic"}
         /\ failedAt' = "relocate"
         /\ \A p \in AllPaths(fs') : Inside(p, outputPath) => p \in AllPaths(fs)
         /\ MarkerOf(fs') = MarkerOf(start)
         /\ ~Exists(fs', StagingPath)]_vars

\* C9: a remote tag that is no valid version ends the run as failed: nothing
\* is downloaded, the marker is not written, the exit status is not 0
C9_InvalidRemoteFails ==
    Compared /\ ~ValidRemote(response.TagName) =>
        /\ pc = "exited"
        /\ outcome = "failed"
        /\ ExitStatus(outcome) # 0
        /\ ~HasStep("download")
        /\ MarkerOf(fs) = MarkerOf(start)

\* marker contents that give no previous version: no YAML, an empty file, no
\* version key, a version with a non-numeric component
UnusableMarkers ==
    { <<"{">>, <<>>, <<"x", ":", " ", "1", "\n">>,
      VersionKey \o V(<<"x">>, <<"0">>, <<"0">>) \o <<"\n">> }

\* the run started without a usable marker
NoUsableMarker ==
    \/ ~IsFile(start, MarkerPath)
    \/ start.files[MarkerPath] \in UnusableMarkers
    \/ markerLoad = "unreadable"

\* C10: without a usable marker the run goes on from CHECK_MARKER with the
\* baseline 0.0.0, and decides as a run without a marker does
C10_BadMarkerIsBaseline ==
    NoUsableMarker /\ pc # "check_marker" /\ failedAt # "create_output" =>
        /\ HasStep("check_marker") \/ HasStep("create_output")
        /\ previousVersionParts = Baseline
        /\ HasStep("compare") =>
              existsNewerVersion(Baseline, splitSemver(response.TagName)) = "true"
        /\ outcome = "up_to_date" =>
              existsNewerVersion(Baseline, splitSemver(response.TagName)) = "false"

\* a run whose marker holds an invalid version went on to download
C10_Witness ==
    /\ IsFile(start, MarkerPath)
    /\ start.files[MarkerPath] \in UnusableMarkers
    /\ markerLoad = "invalid_version"
    /\ pc = "extract"

FreshNewer ==
    /\ previousVersionParts = Baseline
    /\ response.TagName \in {Tag_v1_2_3, Tail(Tag_v1_2_3)}
    /\ response.Tarball = GoodTar1
    /\ faults = 0

\* C12: with the baseline 0.0.0 and the remote tag v1.2.3, when no step
\* fails, the run downloads, extracts, relocates and ends with the marker
\* holding 1.2.3, with exit status 0
C12_FreshSyncRecordsStrippedTag ==
    (pc = "exited" /\ FreshNewer) =>
        /\ outcome = "synced"
        /\ ExitStatus(outcome) = 0
        /\ \E i, j, k \in 1..Len(steps) :
              /\ i < j /\ j < k
              /\ steps[i] = "download" /\ steps[j] = "extract"
              /\ steps[k] = "relocate"
        /\ MarkerOf(fs) = << VersionKey \o V(<<"1">>, <<"2">>, <<"3">>) \o <<"\n">> >>

C12_Witness ==
    pc = "exited" /\ FreshNewer /\ outcome = "synced" /\ markerLoad = "invalid_version"

\* C13: the exit status is 0 exactly for an up-to-date run and a completed
\* sync, and a run in which an operation of a step failed (here: the first
\* run, with an I/O fault other than an unreadable marker) exits non-zero
C13_ExitStatusTellsFailure ==
    pc = "exited" =>
        /\ ExitStatus(outcome) = 0 <=> outcome \in {"up_to_date", "synced"}
        /\ (run = 1 /\ faults > 0 /\ markerLoad # "unreadable")
              => ExitStatus(outcome) # 0

\* C14: in a completed sync the marker is recorded before the cleanup, and
\* a run that fails in cleanup has recorded the marker all the same
C14_RecordBeforeCleanup ==
    /\ outcome = "synced" =>
          \E i, j \in 1..Len(steps) :
              i < j /\ steps[i] = "record" /\ steps[j] = "cleanup"
    /\ (pc = "exited" /\ failedAt = "cleanup") =>
          MarkerOf(fs) = << yamlMarshal(response.TagName) >>

\* C15: a cleanup that leaves the staging directory or the temporary archive
\* behind reports an error, so the run fails in cleanup
C15_CleanupFailureReported ==
    [][(pc = "cleanup"
         /\ (Exists(fs', StagingPath) \/ Exists(fs', TarPath)))
       => (outcome' = "failed" /\ failedAt' = "cleanup")]_vars

\* C16: over three-component versions diffSemvers is antisymmetric (GREATER
\* one way exactly when LESS the other way, EQUAL exactly for equal
\* components) and transitive (a LESS b and b LESS c give a LESS c)
C16_CompareIsAnOrder ==
    sem.stage = "done" =>
        /\ sem.cmp = 1 <=> diffSemvers(sem.b, sem.a) = -1
        /\ sem.cmp = -1 <=> diffSemvers(sem.b, sem.a) = 1
        /\ sem.cmp = 0 <=> sem.a = sem.b
        /\ \A c \in Versions :
              (sem.cmp = -1 /\ diffSemvers(sem.b, c) = -1)
                 => diffSemvers(sem.a, c) = -1

\* 10.0.0 LESS 9.0.0 under the string rule, with 9.0.1 above both
C16_Witness ==
    /\ sem.stage = "done"
    /\ sem.a = << <<"1", "0">>, <<"0">>, <<"0">> >>
    /\ sem.b = << <<"9">>, <<"0">>, <<"0">> >>
    /\ sem.cmp = -1
    /\ diffSemvers(sem.b, << <<"9">>, <<"0">>, <<"1">> >>) = -1

\* the marker held 9.0.0 and the remote tag is v10.0.0
NineThenTen ==
    /\ markerLoad = "ok"
    /\ previousVersionParts = << <<"9">>, <<"0">>, <<"0">> >>
    /\ response.TagName = V(<<"1", "0">>, <<"0">>, <<"0">>)

\* C17: components are compared as strings, "9" is greater than "10", so
\* with marker 9.0.0 and remote 10.0.0 the run ends up to date without a
\* download
C17_NineAboveTen ==
    /\ StrGreater(<<"9">>, <<"1", "0">>)
    /\ (Compared /\ NineThenTen) =>
          /\ pc = "exited"
          /\ outcome = "up_to_date"
          /\ ~HasStep("download")
          /\ fs = start

C17_Witness ==
    pc = "exited" /\ NineThenTen /\ outcome = "up_to_date"

\* C18: after a successful extraction every regular-file target holds
\* exactly the bytes of its entry, whatever was at the target before
C18_ExtractedFilesHoldEntryBytes ==
    (pc = "untar_done" /\ failedAt = "none") =>
        \A i \in 1..Len(response.Tarball.entries) :
            LET e == response.Tarball.entries[i] IN
            e.type = "reg" =>
                /\ IsFile(fs, Join(StagingPath, e.name))
                /\ fs.files[Join(StagingPath, e.name)] = e.data

\* C19: the staging directory and the temporary archive lie beneath the
\* working directory and never inside the output directory
C19_ArtifactsOutsideOutput ==
    \A p \in AllPaths(fs) :
        (Inside(p, StagingPath) \/ p = TarPath) =>
            /\ ~Inside(p, outputPath)
            /\ p[1] # ".."

\* the files of an archive's payload: what lies under <top>/dist, by its
\* path below dist
ArchivePayload(ar) ==
    { i \in 1..Len(ar.entries) :
        /\ ar.entries[i].type = "reg"
        /\ Len(ar.entries[i].name) >= 3
        /\ ar.entries[i].name[1] = ar.entries[1].name[1]
        /\ ar.entries[i].name[2] = "dist" }

\* C20: when a run completes a sync and records its version, the output
\* directory holds the payload of the archive downloaded in that run
C20_RelocatedPayloadIsDownloaded ==
    outcome = "synced" =>
        \A i \in ArchivePayload(response.Tarball) :
            LET e == response.Tarball.entries[i]
                target == Join(outputPath, SubSeq(e.name, 3, Len(e.name)))
            IN  IsFile(fs, target) /\ fs.files[target] = e.data

\* C21: with a marker version that isVersionValueValid accepted, the
\* comparison returns a boolean for every remote tag: the run never crashes
\* in the comparison
C21_CompareNeverCrashes ==
    markerLoad = "ok" =>
        /\ failedAt # "compare"
        /\ pc = "compare" =>
              existsNewerVersion(previousVersionParts,
                                 splitSemver(response.TagName)) \in {"true", "false"}

====
